---- MODULE Spec2Model ----
(***************************************************************************)
(* Streaming chat pipeline of the healthcare application:                  *)
(*   - the relay: POST /api/gemini (src/unnamed/part_002), which forwards  *)
(*     the generation backend's chunks and appends a metadata segment;     *)
(*   - the transport between the relay's ReadableStream and the browser's  *)
(*     reader, which may re-segment the byte stream;                       *)
(*   - the consumer: ChatInterface.handleSubmit (src/unnamed/part_006),    *)
(*     which accumulates segments, splits at the metadata marker and       *)
(*     finalizes the assistant message.                                    *)
(* Texts are sequences of one-character strings.                           *)
(***************************************************************************)
EXTENDS Integers, Sequences, FiniteSets, TLC

(***************************************************************************)
(* Text helpers: the JavaScript string operations the code calls.          *)
(***************************************************************************)

\* s.substring(i-1, j) with 1-based inclusive bounds, empty when i > j.
Slice(s, i, j) == IF i > j THEN <<>> ELSE SubSeq(s, i, j)

\* s.startsWith(pat, i-1)
MatchAt(s, pat, i) ==
  /\ i >= 1
  /\ i + Len(pat) - 1 <= Len(s)
  /\ \A k \in 1..Len(pat) : s[i + k - 1] = pat[k]

\* s.indexOf(pat) as a 1-based position, 0 when pat does not occur.
IndexOf(s, pat) ==
  LET at == {i \in 1..(Len(s) - Len(pat) + 1) : MatchAt(s, pat, i)} IN
  IF at = {} THEN 0 ELSE CHOOSE i \in at : \A j \in at : i <= j

\* s.includes(pat)
Includes(s, pat) == IndexOf(s, pat) # 0

\* s.split(pat) for a non-empty pat: every non-overlapping occurrence, left to
\* right, separates two parts.
RECURSIVE SplitOn(_, _)
SplitOn(s, pat) ==
  LET i == IndexOf(s, pat) IN
  IF i = 0 THEN <<s>>
  ELSE <<Slice(s, 1, i - 1)>> \o SplitOn(Slice(s, i + Len(pat), Len(s)), pat)

\* parts.join(sep)
RECURSIVE Join(_, _)
Join(parts, sep) ==
  IF Len(parts) = 0 THEN <<>>
  ELSE IF Len(parts) = 1 THEN parts[1]
  ELSE parts[1] \o sep \o Join(Tail(parts), sep)

\* chunks.join("")
Concat(parts) == Join(parts, <<>>)

\* The characters String.prototype.trim and the regular expression class \s
\* remove, among the characters of this model.
WhiteSpace == {" ", "\n", "\t", "\r"}

RECURSIVE TrimStart(_)
TrimStart(s) ==
  IF Len(s) > 0 /\ s[1] \in WhiteSpace THEN TrimStart(Tail(s)) ELSE s

RECURSIVE TrimEnd(_)
TrimEnd(s) ==
  IF Len(s) > 0 /\ s[Len(s)] \in WhiteSpace
  THEN TrimEnd(Slice(s, 1, Len(s) - 1)) ELSE s

\* s.trim()
Trim(s) == TrimEnd(TrimStart(s))

\* The first n elements in place of the last n.
SliceFirst(seq, n) ==
  IF Len(seq) <= n THEN seq ELSE SubSeq(seq, 1, n)

\* array.slice(-n)
SliceLast(seq, n) ==
  IF Len(seq) <= n THEN seq ELSE SubSeq(seq, Len(seq) - n + 1, Len(seq))

IsPrefix(p, s) == Len(p) <= Len(s) /\ SubSeq(s, 1, Len(p)) = p

(***************************************************************************)
(* UTF-8: TextEncoder.encode and TextDecoder.decode(value, {stream: true}).*)
(* A byte is a string; an ASCII character is its own single byte and the   *)
(* bullet U+2022 is the three bytes E2 80 A2.                              *)
(***************************************************************************)
Bullet == "U+2022"
Replacement == "U+FFFD"
BulletBytes == <<"xE2", "x80", "xA2">>

EncodeChar(c) == IF c = Bullet THEN BulletBytes ELSE <<c>>

\* The concatenation of the encodings of text[lo..hi].
RECURSIVE EncodeRange(_, _, _)
EncodeRange(text, lo, hi) ==
  IF lo > hi THEN <<>>
  ELSE IF lo = hi THEN EncodeChar(text[lo])
  ELSE LET mid == (lo + hi) \div 2 IN
       EncodeRange(text, lo, mid) \o EncodeRange(text, mid + 1, hi)

\* new TextEncoder().encode(text)
Encode(text) == EncodeRange(text, 1, Len(text))

\* A complete encoding of the bullet starts at position i.
BulletAt(bytes, i) == MatchAt(bytes, BulletBytes, i)

\* The bytes from position i to the end are an incomplete encoding of the
\* bullet.
PartialAt(bytes, i) ==
  /\ i >= 1
  /\ i <= Len(bytes)
  /\ Len(bytes) - i + 1 < Len(BulletBytes)
  /\ IsPrefix(SubSeq(bytes, i, Len(bytes)), BulletBytes)

\* What the decoder emits for the byte at position i: the character when a
\* sequence starts there, nothing for a byte inside a sequence or of the
\* incomplete sequence at the end, U+FFFD for a byte that fits no sequence.
DecodeAt(bytes, i) ==
  IF bytes[i] = BulletBytes[1] THEN
    IF BulletAt(bytes, i) THEN <<Bullet>>
    ELSE IF PartialAt(bytes, i) THEN <<>>
    ELSE <<Replacement>>
  ELSE IF bytes[i] = BulletBytes[2] THEN
    IF BulletAt(bytes, i - 1) \/ PartialAt(bytes, i - 1) THEN <<>>
    ELSE <<Replacement>>
  ELSE IF bytes[i] = BulletBytes[3] THEN
    IF BulletAt(bytes, i - 2) THEN <<>> ELSE <<Replacement>>
  ELSE <<bytes[i]>>

RECURSIVE DecodeRange(_, _, _)
DecodeRange(bytes, lo, hi) ==
  IF lo > hi THEN <<>>
  ELSE IF lo = hi THEN DecodeAt(bytes, lo)
  ELSE LET mid == (lo + hi) \div 2 IN
       DecodeRange(bytes, lo, mid) \o DecodeRange(bytes, mid + 1, hi)

\* decoder.decode(value) without the stream option: an incomplete sequence at
\* the end becomes U+FFFD and nothing is kept.
DecodeWithoutStream(bytes) ==
  [text |-> DecodeRange(bytes, 1, Len(bytes))
              \o (IF PartialAt(bytes, Len(bytes) - 1) \/ PartialAt(bytes, Len(bytes))
                    THEN <<Replacement>> ELSE <<>>),
   rest |-> <<>>]

\* One call of decoder.decode(value, {stream: true}) on the bytes the decoder
\* kept from the previous call followed by the new ones: the decoded text and
\* the incomplete trailing sequence the decoder keeps.
DecodeStream(bytes) ==
  [text |-> DecodeRange(bytes, 1, Len(bytes)),
   rest |-> IF PartialAt(bytes, Len(bytes) - 1)
              THEN SubSeq(bytes, Len(bytes) - 1, Len(bytes))
            ELSE IF PartialAt(bytes, Len(bytes))
              THEN SubSeq(bytes, Len(bytes), Len(bytes))
            ELSE <<>>]

(***************************************************************************)
(* JSON values: [t |-> tag, v |-> sequence].                               *)
(*   "str": v is the text; "arr": v is the elements; "obj": v is the       *)
(*   members [k |-> text, v |-> value] in order; "lit": v spells true,     *)
(*   false or null; "num": v is the digits; "undef": JavaScript undefined. *)
(***************************************************************************)
JStr(text) == [t |-> "str", v |-> text]
JArr(elems) == [t |-> "arr", v |-> elems]
JObj(members) == [t |-> "obj", v |-> members]
JTrue == [t |-> "lit", v |-> <<"t", "r", "u", "e">>]
JFalse == [t |-> "lit", v |-> <<"f", "a", "l", "s", "e">>]
JNull == [t |-> "lit", v |-> <<"n", "u", "l", "l">>]
JUndef == [t |-> "undef", v |-> <<>>]
JStrings(texts) == JArr([i \in 1..Len(texts) |-> JStr(texts[i])])

DQ == "\""
BS == "\\"

\* JSON.stringify of one character of a string
EscapeChar(c) ==
  IF c = DQ THEN <<BS, DQ>>
  ELSE IF c = BS THEN <<BS, BS>>
  ELSE IF c = "\n" THEN <<BS, "n">>
  ELSE IF c = "\t" THEN <<BS, "t">>
  ELSE IF c = "\r" THEN <<BS, "r">>
  ELSE <<c>>

RECURSIVE EscapeRange(_, _, _)
EscapeRange(text, lo, hi) ==
  IF lo > hi THEN <<>>
  ELSE IF lo = hi THEN EscapeChar(text[lo])
  ELSE LET mid == (lo + hi) \div 2 IN
       EscapeRange(text, lo, mid) \o EscapeRange(text, mid + 1, hi)

EscapeText(text) == EscapeRange(text, 1, Len(text))

Quote(text) == <<DQ>> \o EscapeText(text) \o <<DQ>>

\* JSON.stringify(value)
RECURSIVE Stringify(_)
Stringify(val) ==
  IF val.t = "str" THEN Quote(val.v)
  ELSE IF val.t = "arr" THEN
    <<"[">> \o Join([i \in 1..Len(val.v) |-> Stringify(val.v[i])], <<",">>)
            \o <<"]">>
  ELSE IF val.t = "obj" THEN
    <<"{">> \o Join([i \in 1..Len(val.v) |->
                       Quote(val.v[i].k) \o <<":">> \o Stringify(val.v[i].v)],
                    <<",">>)
            \o <<"}">>
  ELSE val.v

Digits == {"0", "1", "2", "3", "4", "5", "6", "7", "8", "9"}

RECURSIVE SkipWs(_, _)
SkipWs(s, i) ==
  IF i <= Len(s) /\ s[i] \in WhiteSpace THEN SkipWs(s, i + 1) ELSE i

ParseFail == [ok |-> FALSE, val |-> JUndef, next |-> 0]

\* The number of backslashes that stand in a row right before position j,
\* counted from position i on.
BackslashRun(s, i, j) ==
  IF j <= i \/ s[j - 1] # BS THEN 0
  ELSE
    LET stops == {k \in (i - 1)..(j - 1) : k = i - 1 \/ s[k] # BS}
        last == CHOOSE k \in stops : \A m \in stops : m <= k
    IN j - 1 - last

\* The character at position j is the second character of an escape.
Escaped(s, i, j) == BackslashRun(s, i, j) % 2 = 1

\* The characters that positions lo..hi of a JSON string stand for.
RECURSIVE UnescapeRange(_, _, _, _)
UnescapeRange(s, i, lo, hi) ==
  IF lo > hi THEN <<>>
  ELSE IF lo = hi THEN
    IF Escaped(s, i, lo) THEN
      IF s[lo] = "n" THEN <<"\n">>
      ELSE IF s[lo] = "t" THEN <<"\t">>
      ELSE IF s[lo] = "r" THEN <<"\r">>
      ELSE <<s[lo]>>
    ELSE IF s[lo] = BS THEN <<>>
    ELSE <<s[lo]>>
  ELSE LET mid == (lo + hi) \div 2 IN
       UnescapeRange(s, i, lo, mid) \o UnescapeRange(s, i, mid + 1, hi)

\* The characters of a JSON string from position i (after the opening quote)
\* to the closing quote, the first quote that is not escaped; acc is the text
\* read before position i.
ParseChars(s, i, acc) ==
  LET closes == {j \in i..Len(s) : s[j] = DQ /\ ~Escaped(s, i, j)} IN
  IF closes = {} THEN ParseFail
  ELSE
    LET close == CHOOSE j \in closes : \A m \in closes : j <= m
        bad == {k \in i..(close - 1) :
                  IF Escaped(s, i, k)
                  THEN s[k] \notin {DQ, BS, "/", "n", "t", "r"}
                  ELSE s[k] \in {"\n", "\t", "\r"}}
    IN
    IF bad # {} THEN ParseFail
    ELSE [ok |-> TRUE,
          val |-> JStr(acc \o UnescapeRange(s, i, i, close - 1)),
          next |-> close + 1]

RECURSIVE ParseDigits(_, _, _)
ParseDigits(s, i, acc) ==
  IF i <= Len(s) /\ s[i] \in Digits
  THEN ParseDigits(s, i + 1, Append(acc, s[i]))
  ELSE [ok |-> TRUE, val |-> [t |-> "num", v |-> acc], next |-> i]

ParseLiteral(s, i, lit) ==
  IF MatchAt(s, lit.v, i)
  THEN [ok |-> TRUE, val |-> lit, next |-> i + Len(lit.v)]
  ELSE ParseFail

RECURSIVE ParseValue(_, _)
RECURSIVE ParseElems(_, _, _)
RECURSIVE ParseMembers(_, _, _)

\* One JSON value starting at the first non-blank position at or after i.
ParseValue(s, i0) ==
  LET i == SkipWs(s, i0) IN
  IF i > Len(s) THEN ParseFail
  ELSE IF s[i] = DQ THEN ParseChars(s, i + 1, <<>>)
  ELSE IF s[i] = "[" THEN
    LET j == SkipWs(s, i + 1) IN
    IF j <= Len(s) /\ s[j] = "]"
    THEN [ok |-> TRUE, val |-> JArr(<<>>), next |-> j + 1]
    ELSE ParseElems(s, i + 1, <<>>)
  ELSE IF s[i] = "{" THEN
    LET j == SkipWs(s, i + 1) IN
    IF j <= Len(s) /\ s[j] = "}"
    THEN [ok |-> TRUE, val |-> JObj(<<>>), next |-> j + 1]
    ELSE ParseMembers(s, i + 1, <<>>)
  ELSE IF s[i] = "t" THEN ParseLiteral(s, i, JTrue)
  ELSE IF s[i] = "f" THEN ParseLiteral(s, i, JFalse)
  ELSE IF s[i] = "n" THEN ParseLiteral(s, i, JNull)
  ELSE IF s[i] \in Digits THEN ParseDigits(s, i, <<>>)
  ELSE ParseFail

\* The elements of an array from position i, up to the closing bracket.
ParseElems(s, i, acc) ==
  LET e == ParseValue(s, i) IN
  IF ~e.ok THEN ParseFail
  ELSE
    LET j == SkipWs(s, e.next) IN
    IF j > Len(s) THEN ParseFail
    ELSE IF s[j] = "," THEN ParseElems(s, j + 1, Append(acc, e.val))
    ELSE IF s[j] = "]"
      THEN [ok |-> TRUE, val |-> JArr(Append(acc, e.val)), next |-> j + 1]
    ELSE ParseFail

\* The members of an object from position i, up to the closing brace.
ParseMembers(s, i0, acc) ==
  LET i == SkipWs(s, i0) IN
  IF i > Len(s) \/ s[i] # DQ THEN ParseFail
  ELSE
    LET key == ParseChars(s, i + 1, <<>>) IN
    IF ~key.ok THEN ParseFail
    ELSE
      LET c == SkipWs(s, key.next) IN
      IF c > Len(s) \/ s[c] # ":" THEN ParseFail
      ELSE
        LET e == ParseValue(s, c + 1) IN
        IF ~e.ok THEN ParseFail
        ELSE
          LET j == SkipWs(s, e.next)
              m == Append(acc, [k |-> key.val.v, v |-> e.val])
          IN
          IF j > Len(s) THEN ParseFail
          ELSE IF s[j] = "," THEN ParseMembers(s, j + 1, m)
          ELSE IF s[j] = "}"
            THEN [ok |-> TRUE, val |-> JObj(m), next |-> j + 1]
          ELSE ParseFail

\* JSON.parse(text): ok is FALSE where JSON.parse throws a SyntaxError.
JSONparse(text) ==
  LET r == ParseValue(text, 1) IN
  IF r.ok /\ SkipWs(text, r.next) = Len(text) + 1
  THEN [ok |-> TRUE, val |-> r.val]
  ELSE [ok |-> FALSE, val |-> JUndef]

\* value.key: the last member named key of an object, undefined otherwise.
\* Reading a property of null throws a TypeError, which HasProps tells.
HasProps(val) == val.t # "lit" \/ val.v # JNull.v

GetProp(val, key) ==
  IF val.t = "obj" /\ \E i \in 1..Len(val.v) : val.v[i].k = key
  THEN val.v[CHOOSE i \in 1..Len(val.v) :
               /\ val.v[i].k = key
               /\ \A j \in (i + 1)..Len(val.v) : val.v[j].k # key].v
  ELSE JUndef

\* The truthiness of a value in an if-test.
Truthy(val) ==
  IF val.t = "undef" THEN FALSE
  ELSE IF val.t = "lit" THEN val.v = JTrue.v
  ELSE IF val.t = "num" THEN \E i \in 1..Len(val.v) : val.v[i] # "0"
  ELSE IF val.t = "str" THEN Len(val.v) > 0
  ELSE TRUE

(***************************************************************************)
(* The relay's suggestion extraction and metadata segment.                 *)
(***************************************************************************)
Uppers == <<"A", "B", "C", "D", "E", "F", "G", "H", "I", "J", "K", "L", "M",
            "N", "O", "P", "Q", "R", "S", "T", "U", "V", "W", "X", "Y", "Z">>
Lowers == <<"a", "b", "c", "d", "e", "f", "g", "h", "i", "j", "k", "l", "m",
            "n", "o", "p", "q", "r", "s", "t", "u", "v", "w", "x", "y", "z">>

\* The case folding of the regular expression flag i.
Lower(c) ==
  IF \E i \in 1..26 : Uppers[i] = c
  THEN Lowers[CHOOSE i \in 1..26 : Uppers[i] = c]
  ELSE c

LowerText(s) == [i \in 1..Len(s) |-> Lower(s[i])]

\* \*\*Follow-up Question
HeadingStem == <<"*", "*", "f", "o", "l", "l", "o", "w", "-", "u", "p", " ",
                 "q", "u", "e", "s", "t", "i", "o", "n">>
\* :\*\*
HeadingEnd == <<":", "*", "*">>
\* \n\n##
SectionStop == <<"\n", "\n", "#", "#">>

\* The length of the match of \*\*Follow-up Questions?:\*\* at position i of
\* the case-folded text l, 0 when it does not match there.
HeadingLenAt(l, i) ==
  LET n == Len(HeadingStem) IN
  IF ~MatchAt(l, HeadingStem, i) THEN 0
  ELSE IF MatchAt(l, <<"s">> \o HeadingEnd, i + n) THEN n + 1 + Len(HeadingEnd)
  ELSE IF MatchAt(l, HeadingEnd, i + n) THEN n + Len(HeadingEnd)
  ELSE 0

\* match[1] of fullText.match(suggestionPattern): the text after the first
\* heading, up to the first "\n\n##" or the end; empty without a match.
SuggestionSection(fullText) ==
  LET l == LowerText(fullText)
      at == {i \in 1..Len(l) : HeadingLenAt(l, i) > 0}
  IN
  IF at = {} THEN <<>>
  ELSE
    LET i == CHOOSE i \in at : \A j \in at : i <= j
        rest == Slice(fullText, i + HeadingLenAt(l, i), Len(fullText))
        stop == IndexOf(rest, SectionStop)
    IN IF stop = 0 THEN rest ELSE Slice(rest, 1, stop - 1)

BulletMarks == {Bullet, "-", "*"}

\* line.trim().replace(/^[•\-\*]\s*/, "")
CleanLine(line) ==
  LET t == Trim(line) IN
  IF Len(t) > 0 /\ t[1] \in BulletMarks THEN TrimStart(Tail(t)) ELSE t

MinSuggestionLen == 10
MaxSuggestionLen == 150

\* The filter with its two limits included.
KeepLineInclusive(line) ==
  Len(line) >= MinSuggestionLen /\ Len(line) <= MaxSuggestionLen

\* .filter((line) => line.length > 10 && line.length < 150)
KeepLine(line) == Len(line) > MinSuggestionLen /\ Len(line) < MaxSuggestionLen

RECURSIVE FilterLines(_)
FilterLines(lines) ==
  IF Len(lines) = 0 THEN <<>>
  ELSE IF KeepLine(lines[1]) THEN <<lines[1]>> \o FilterLines(Tail(lines))
  ELSE FilterLines(Tail(lines))

\* The suggestions the relay extracts from the complete response.
ExtractSuggestions(fullText) ==
  LET section == SuggestionSection(fullText) IN
  IF Len(section) = 0 THEN <<>>
  ELSE
    LET lines == SplitOn(section, <<"\n">>) IN
    FilterLines([i \in 1..Len(lines) |-> CleanLine(lines[i])])

\* "___METADATA___", the marker the consumer searches
Marker == <<"_", "_", "_", "M", "E", "T", "A", "D", "A", "T", "A",
            "_", "_", "_">>
\* "\n___METADATA___\n", the sentinel the relay writes
Sentinel == <<"\n">> \o Marker \o <<"\n">>

KeySuggestions == <<"s", "u", "g", "g", "e", "s", "t", "i", "o", "n", "s">>
KeyDone == <<"d", "o", "n", "e">>
KeyTimestamp == <<"t", "i", "m", "e", "s", "t", "a", "m", "p">>
KeyCategory == <<"c", "a", "t", "e", "g", "o", "r", "y">>
General == <<"g", "e", "n", "e", "r", "a", "l">>
KeyMessage == <<"m", "e", "s", "s", "a", "g", "e">>
KeyConversationHistory ==
  <<"c", "o", "n", "v", "e", "r", "s", "a", "t", "i", "o", "n", "H", "i", "s",
    "t", "o", "r", "y">>
KeyRole == <<"r", "o", "l", "e">>
KeyContent == <<"c", "o", "n", "t", "e", "n", "t">>

\* The metadata object of the relay for a complete response.
Metadata(fullText, timestamp, category) ==
  JObj(<<[k |-> KeySuggestions, v |-> JStrings(ExtractSuggestions(fullText))],
         [k |-> KeyDone, v |-> JTrue],
         [k |-> KeyTimestamp, v |-> JStr(timestamp)],
         [k |-> KeyCategory,
          v |-> IF Truthy(category) THEN category ELSE JStr(General)]>>)

\* "\n___METADATA___\n" + JSON.stringify(metadata)
MetadataSegment(fullText, timestamp, category) ==
  Sentinel \o Stringify(Metadata(fullText, timestamp, category))

(***************************************************************************)
(* State.                                                                  *)
(***************************************************************************)
VARIABLES
  \* ChatInterface: React state and refs
  messages,             \* useState<Message[]>
  inputMessage,         \* useState<string>
  isLoading,            \* useState<boolean>
  suggestions,          \* useState<string[]>, as a JSON value
  streamingMessage,     \* useState<string>
  conversationHistory,  \* useState<ConversationMessage[]>
  turnLog,              \* every turn appended to conversationHistory so far,
                        \* in order (history variable)
  abortControllerRef,   \* "null", "live" or "aborted"
  mounted,              \* the component is mounted
  submitTimers,         \* pending setTimeout callbacks of sendMessage
  \* ChatInterface.handleSubmit: the running invocation
  pc,                   \* "idle", "fetch" (awaiting fetch), "read" (awaiting read)
  chunksJoined,         \* chunks.join("")
  decoderRest,          \* bytes the TextDecoder holds back
  aiMessageId,          \* id of the placeholder of this invocation
  submitCalls,          \* number of invocations of handleSubmit so far
  turnOutcome,          \* how the latest accepted invocation ended: "none",
                        \* "running", "marker" (finalized at the marker), "done"
                        \* (finalized at the end of the body), "failed", "aborted"
  \* the POST handler serving the current request
  request,              \* the value of request.json(): the body of the
                        \* request as a JSON value, Malformed, or NoRequest
  prompt,               \* the prompt passed to the backend, or NoPrompt
  replyError,           \* the error text of a JSON reply, empty otherwise
  caughtError,          \* the message of the error the catch block of POST
                        \* has logged, empty when it caught none
  httpStatus,           \* 0 until the response is started
  relayPc,              \* "none", "received", "replied", "streaming", "closed",
                        \* "errored", "killed", "cancelled" (cancelled by the
                        \* platform, start() still running), "stopped"
  upstream,             \* result.stream: "none", "running", "done", "failed",
                        \* "abandoned" (the loop was left before its end)
  produced,             \* the chunks the backend has produced so far
  fullText,             \* fullText of the relay
  emitted,              \* the texts passed to encoder.encode, in order
  body,                 \* the bytes passed to controller.enqueue so far
  \* transport and clock
  recvPos,              \* bytes of the response body read by the consumer
  cuts,                 \* reads that returned less than the bytes available
  clock,                \* Date.now(), advanced by every accepted submission
  \* the diagnosis store and its routes
  diagnoses,            \* the own properties of the store object: id -> record
  diagnosesCounter,     \* let diagnosesCounter
  storeResult,          \* what the latest call of a store function or route
                        \* returned
  reviewClock,          \* new Date() of the review route
  storeCalls,           \* number of calls of store functions and routes
  \* the chat-widget store (useChatWidget)
  isOpen,
  isMinimized,
  \* ChatWidget: React state
  widgetMessages,       \* useState<Message[]>
  input,                \* useState<string>
  loading,              \* useState<boolean>
  currentStreamingMessage, \* useState<string>
  savedMessages,        \* localStorage "medassist-widget-messages"
  calls,                \* the invocations of getAIResponse that are running
  requestsStarted,      \* number of fetches ChatWidget has started
  lastCall              \* the invocation of getAIResponse that returned last
                        \* (history variable)

vars == <<messages, inputMessage, isLoading, suggestions, streamingMessage,
          conversationHistory, turnLog, abortControllerRef, mounted, submitTimers,
          pc, chunksJoined, decoderRest, aiMessageId, submitCalls,
          turnOutcome, request, prompt, replyError, caughtError, httpStatus, relayPc, upstream, produced, fullText, emitted,
          body, recvPos, cuts, clock, diagnoses, diagnosesCounter, storeResult,
          reviewClock, storeCalls, isOpen, isMinimized, widgetMessages, input, loading,
          currentStreamingMessage, savedMessages, calls,
          requestsStarted, lastCall>>

clientVars == <<messages, inputMessage, isLoading, suggestions,
                streamingMessage, conversationHistory, turnLog, abortControllerRef,
                mounted, submitTimers, pc, chunksJoined, decoderRest,
                aiMessageId, submitCalls, turnOutcome, recvPos, cuts, clock>>

serverVars ==
  <<request, prompt, replyError, caughtError, httpStatus, relayPc, upstream,
    produced, fullText, emitted, body>>

\* The diagnosis store with the result of its latest call.
storeVars ==
  <<diagnoses, diagnosesCounter, storeResult, reviewClock, storeCalls>>
\* The chat-widget store and the state of ChatWidget.
widgetVars ==
  <<isOpen, isMinimized, widgetMessages, input, loading,
    currentStreamingMessage, savedMessages, calls,
    requestsStarted, lastCall>>
\* The chat pipeline of ChatInterface and the relay serving it.
chatVars == <<clientVars, serverVars>>

\* No request has been made yet.
NoRequest == JUndef
\* A body that is not JSON: request.json() throws.
Malformed == [t |-> "bad", v |-> <<>>]
\* generateContentStream has not been called for the current request.
NoPrompt == [category |-> <<>>, message |-> <<>>, context |-> <<>>]
NoId == <<"none", 0>>

\* The bytes enqueued and not yet read by the consumer.
Avail == Len(body) - recvPos

(***************************************************************************)
(* The diagnosis store (src/medi_box/src/lib/store/diagnosesStore.ts): a   *)
(* plain object keyed by id.  A record is a function from the names of its *)
(* properties to their values; of DiagnosisData the model keeps id,        *)
(* status, doctorName, doctorFeedback and the optional reviewDate, and     *)
(* aiDiagnosis in place of the properties no route writes after creation.  *)
(***************************************************************************)
\* "Dr. Sarah Williams"
SampleDoctor ==
  <<"D", "r", ".", " ", "S", "a", "r", "a", "h", " ", "W", "i", "l", "l", "i",
    "a", "m", "s">>
\* "Pending Review"
PendingReview ==
  <<"P", "e", "n", "d", "i", "n", "g", " ", "R", "e", "v", "i", "e", "w">>
\* the doctorFeedback of the sample record "1"
SampleFeedback ==
  <<"I", " ", "c", "o", "n", "c", "u", "r", " ", "w", "i", "t", "h", " ", "t",
    "h", "e", " ", "A", "I", " ", "d", "i", "a", "g", "n", "o", "s", "i", "s",
    ".", " ", "T", "h", "e", " ", "X", "-", "r", "a", "y", " ", "s", "h", "o",
    "w", "s", " ", "c", "l", "e", "a", "r", " ", "s", "i", "g", "n", "s", " ",
    "o", "f", " ", "p", "n", "e", "u", "m", "o", "n", "i", "a", " ", "i", "n",
    " ", "t", "h", "e", " ", "r", "i", "g", "h", "t", " ", "l", "o", "w", "e",
    "r", " ", "l", "o", "b", "e", ".", " ", "I", " ", "r", "e", "c", "o", "m",
    "m", "e", "n", "d", " ", "a", " ", "c", "o", "u", "r", "s", "e", " ", "o",
    "f", " ", "a", "n", "t", "i", "b", "i", "o", "t", "i", "c", "s", " ", "(",
    "a", "m", "o", "x", "i", "c", "i", "l", "l", "i", "n", ")", " ", "a", "n",
    "d", " ", "r", "e", "s", "t", " ", "f", "o", "r", " ", "a", "t", " ", "l",
    "e", "a", "s", "t", " ", "5", " ", "d", "a", "y", "s", ".", " ", "P", "l",
    "e", "a", "s", "e", " ", "s", "c", "h", "e", "d", "u", "l", "e", " ", "a",
    " ", "f", "o", "l", "l", "o", "w", "-", "u", "p", " ", "i", "n", " ", "o",
    "n", "e", " ", "w", "e", "e", "k", ".">>

\* The sample data the store is created with.
InitialDiagnoses ==
  [k \in {"1", "2", "3"} |->
     IF k = "1"
     THEN [id |-> "1", aiDiagnosis |-> "Pneumonia", status |-> "approved",
           doctorName |-> SampleDoctor, doctorFeedback |-> SampleFeedback]
     ELSE IF k = "2"
     THEN [id |-> "2", aiDiagnosis |-> "Migraine with Aura",
           status |-> "pending", doctorName |-> PendingReview,
           doctorFeedback |-> <<>>]
     ELSE [id |-> "3", aiDiagnosis |-> "Seasonal Allergic Rhinitis",
           status |-> "pending", doctorName |-> PendingReview,
           doctorFeedback |-> <<>>]]

\* The store is an object literal, so a property it does not own is looked
\* up in Object.prototype: these names, among the ids of this model, yield a
\* function, which is truthy and has no own enumerable property.
InheritedKeys == {"constructor"}

\* diagnoses[id]: the record the store owns, an inherited function, or
\* undefined; rec is what spreading the value copies.
Lookup(store, id) ==
  IF id \in DOMAIN store THEN [kind |-> "record", rec |-> store[id]]
  ELSE IF id \in InheritedKeys THEN [kind |-> "function", rec |-> <<>>]
  ELSE [kind |-> "undefined", rec |-> <<>>]

\* { ...a, ...b }
Spread(a, b) ==
  [f \in DOMAIN a \cup DOMAIN b |-> IF f \in DOMAIN b THEN b[f] ELSE a[f]]

\* diagnoses[id] = rec
Assign(store, id, rec) ==
  [k \in DOMAIN store \cup {id} |-> IF k = id THEN rec ELSE store[k]]

\* What a call returned: op names the function or route, arg is its second
\* argument or request body, status the HTTP status of a route (0 for a
\* store function), defined tells a value from undefined.
Result(op, id, arg, status, defined, value) ==
  [op |-> op, id |-> id, arg |-> arg, status |-> status,
   defined |-> defined, value |-> value]
\* No invocation of getAIResponse has returned yet.
NoCall == [how |-> "none", ending |-> "none", fullText |-> <<>>]
NoResult == Result("none", "", <<>>, 0, FALSE, <<>>)

Init ==
  /\ messages = <<>>
  /\ inputMessage = <<>>
  /\ isLoading = FALSE
  /\ suggestions = JArr(<<>>)
  /\ streamingMessage = <<>>
  /\ conversationHistory = <<>>
  /\ turnLog = <<>>
  /\ abortControllerRef = "null"
  /\ mounted = TRUE
  /\ submitTimers = 0
  /\ pc = "idle"
  /\ chunksJoined = <<>>
  /\ decoderRest = <<>>
  /\ aiMessageId = NoId
  /\ submitCalls = 0
  /\ turnOutcome = "none"
  /\ request = NoRequest
  /\ prompt = NoPrompt
  /\ replyError = <<>>
  /\ caughtError = <<>>
  /\ httpStatus = 0
  /\ relayPc = "none"
  /\ upstream = "none"
  /\ produced = <<>>
  /\ fullText = <<>>
  /\ emitted = <<>>
  /\ body = <<>>
  /\ recvPos = 0
  /\ cuts = 0
  /\ clock = 0
  /\ diagnoses = InitialDiagnoses
  /\ diagnosesCounter = 3
  /\ storeResult = NoResult
  /\ reviewClock = 0
  /\ storeCalls = 0
  /\ isOpen = FALSE
  /\ isMinimized = TRUE
  /\ widgetMessages = <<>>
  /\ input = <<>>
  /\ loading = FALSE
  /\ currentStreamingMessage = <<>>
  /\ savedMessages = <<>>
  /\ calls = <<>>
  /\ requestsStarted = 0
  /\ lastCall = NoCall

(***************************************************************************)
(* ChatInterface (src/unnamed/part_006).                                   *)
(***************************************************************************)
HistoryWindow == 10
UPDATE_INTERVAL == 50
\* "Sorry, something went wrong. Please try again."
ErrorText == <<"S", "o", "r", "r", "y", ",", " ", "s", "o", "m", "e", "t", "h",
               "i", "n", "g", " ", "w", "e", "n", "t", " ", "w", "r", "o", "n",
               "g", ".", " ", "P", "l", "e", "a", "s", "e", " ", "t", "r", "y",
               " ", "a", "g", "a", "i", "n", ".">>

UserMessage(id, text) ==
  [id |-> id, message |-> text, sender |-> "user", streaming |-> FALSE,
   status |-> ""]
Placeholder(id) ==
  [id |-> id, message |-> <<>>, sender |-> "ai", streaming |-> TRUE,
   status |-> ""]
ErrorMessage(id) ==
  [id |-> id, message |-> ErrorText, sender |-> "ai", streaming |-> FALSE,
   status |-> "error"]
Turn(role, content) == [role |-> role, content |-> content]

\* onChange of the input field, which is disabled while isLoading.
SetInput(m) ==
  /\ mounted
  /\ ~isLoading
  /\ inputMessage' = m
  /\ UNCHANGED <<messages, isLoading, suggestions, streamingMessage,
                 conversationHistory, turnLog, abortControllerRef, mounted,
                 submitTimers, pc, chunksJoined, decoderRest, aiMessageId,
                 submitCalls, turnOutcome, recvPos, cuts, clock>>
  /\ UNCHANGED serverVars
  /\ UNCHANGED <<storeVars, widgetVars>>

\* sendMessage of the imperative handle: sets the input and schedules a
\* submit event.
SendMessage(m) ==
  /\ mounted
  /\ inputMessage' = m
  /\ submitTimers' = submitTimers + 1
  /\ UNCHANGED <<messages, isLoading, suggestions, streamingMessage,
                 conversationHistory, turnLog, abortControllerRef, mounted,
                 pc, chunksJoined, decoderRest, aiMessageId,
                 submitCalls, turnOutcome, recvPos, cuts, clock>>
  /\ UNCHANGED serverVars
  /\ UNCHANGED <<storeVars, widgetVars>>

\* The early return of handleSubmit: nothing is changed.
RejectSubmit ==
  /\ UNCHANGED <<messages, inputMessage, isLoading, suggestions,
                 streamingMessage, conversationHistory, turnLog, abortControllerRef,
                 mounted, pc, chunksJoined, decoderRest, aiMessageId,
                 turnOutcome, recvPos, cuts, clock>>
  /\ UNCHANGED serverVars
  /\ UNCHANGED <<storeVars, widgetVars>>

\* The body of the fetch: JSON.stringify({ message, category,
\* conversationHistory }), as request.json() of POST returns it.
RequestBody(message, category, history) ==
  JObj(<<[k |-> KeyMessage, v |-> message],
         [k |-> KeyCategory, v |-> category],
         [k |-> KeyConversationHistory, v |-> history]>>)
\* The roles "user" and "assistant" as texts.
RoleUser == <<"u", "s", "e", "r">>
RoleAssistant == <<"a", "s", "s", "i", "s", "t", "a", "n", "t">>
RoleText(role) == IF role = "user" THEN RoleUser ELSE RoleAssistant
\* A ConversationMessage[] as a JSON value.
HistoryValue(history) ==
  JArr([i \in 1..Len(history) |->
          JObj(<<[k |-> KeyRole, v |-> JStr(RoleText(history[i].role))],
                 [k |-> KeyContent, v |-> JStr(history[i].content)]>>)])

\* handleSubmit past its guard, up to its first await: the user message, the
\* history update and the start of the fetch, which hands the request to POST.
AcceptSubmit ==
  LET messageText == Trim(inputMessage)
      newHistory ==
        SliceLast(Append(conversationHistory, Turn("user", messageText)),
                  HistoryWindow)
  IN
  /\ inputMessage' = <<>>
  /\ isLoading' = TRUE
  /\ suggestions' = JArr(<<>>)
  /\ clock' = clock + 1
  /\ messages' = Append(messages, UserMessage(<<"user", clock + 1>>,
                                              messageText))
  /\ conversationHistory' = newHistory
  /\ turnLog' = Append(turnLog, Turn("user", messageText))
  /\ abortControllerRef' = "live"
  /\ request' = RequestBody(JStr(messageText), JStr(General),
                             HistoryValue(newHistory))
  /\ prompt' = NoPrompt
  /\ replyError' = <<>>
  /\ caughtError' = <<>>
  /\ httpStatus' = 0
  /\ relayPc' = "received"
  /\ upstream' = "none"
  /\ produced' = <<>>
  /\ fullText' = <<>>
  /\ emitted' = <<>>
  /\ body' = <<>>
  /\ recvPos' = 0
  /\ cuts' = 0
  /\ pc' = "fetch"
  /\ turnOutcome' = "running"
  /\ chunksJoined' = <<>>
  /\ decoderRest' = <<>>
  /\ UNCHANGED <<streamingMessage, mounted, aiMessageId>>
  /\ UNCHANGED <<storeVars, widgetVars>>

\* handleSubmit without the isLoading test of its guard.
HandleSubmitWhileLoading ==
  /\ submitCalls' = submitCalls + 1
  /\ IF Len(Trim(inputMessage)) = 0 THEN RejectSubmit ELSE AcceptSubmit

\* handleSubmit: if (!inputMessage.trim() || isLoading) return;
HandleSubmit ==
  /\ submitCalls' = submitCalls + 1
  /\ IF Len(Trim(inputMessage)) = 0 \/ isLoading
     THEN RejectSubmit
     ELSE AcceptSubmit

\* The submit event of the form, which the user can raise while the send
\* button is enabled.
FormSubmit ==
  /\ mounted
  /\ Len(Trim(inputMessage)) > 0
  /\ ~isLoading
  /\ HandleSubmit
  /\ UNCHANGED submitTimers

\* The submit event dispatched by the timer of sendMessage.
TimerSubmit ==
  /\ mounted
  /\ submitTimers > 0
  /\ submitTimers' = submitTimers - 1
  /\ HandleSubmit

\* The catch block without its error message.
FailTurnSilent ==
  /\ UNCHANGED messages
  /\ isLoading' = FALSE
  /\ pc' = "idle"
  /\ turnOutcome' = "failed"

\* catch of a failure that is not an AbortError, then finally.
FailTurn ==
  /\ messages' = Append(messages, ErrorMessage(<<"error", clock>>))
  /\ isLoading' = FALSE
  /\ pc' = "idle"
  /\ turnOutcome' = "failed"

\* fetch resolves with the response of the handler: a non-OK status throws,
\* an OK status adds the placeholder and starts reading.
FetchResolve ==
  /\ pc = "fetch"
  /\ abortControllerRef = "live"
  /\ httpStatus # 0
  /\ IF httpStatus # 200
     THEN /\ FailTurn
          /\ UNCHANGED aiMessageId
     ELSE /\ aiMessageId' = <<"ai", clock>>
          /\ messages' = Append(messages, Placeholder(<<"ai", clock>>))
          /\ pc' = "read"
          /\ UNCHANGED <<isLoading, turnOutcome>>
  /\ UNCHANGED <<inputMessage, suggestions, streamingMessage,
                 conversationHistory, turnLog, abortControllerRef, mounted,
                 submitTimers, chunksJoined, decoderRest, submitCalls,
                 recvPos, cuts, clock>>
  /\ UNCHANGED serverVars
  /\ UNCHANGED <<storeVars, widgetVars>>

\* fetch rejects with a network error.
FetchFail ==
  /\ pc = "fetch"
  /\ abortControllerRef = "live"
  /\ FailTurn
  /\ UNCHANGED <<inputMessage, suggestions, streamingMessage,
                 conversationHistory, turnLog, abortControllerRef, mounted,
                 submitTimers, chunksJoined, decoderRest, aiMessageId,
                 submitCalls, recvPos, cuts, clock>>
  /\ UNCHANGED serverVars
  /\ UNCHANGED <<storeVars, widgetVars>>

\* What the metadata part sets: metadata.suggestions when JSON.parse succeeds
\* and the value is truthy, the current suggestions otherwise.
ParsedSuggestions(metadataPart, current) ==
  LET parsed == JSONparse(metadataPart) IN
  IF parsed.ok /\ HasProps(parsed.val)
       /\ Truthy(GetProp(parsed.val, KeySuggestions))
  THEN GetProp(parsed.val, KeySuggestions)
  ELSE current

\* chunks.join("").split("___METADATA___")[0]
FinalText(accumulatedText) == SplitOn(accumulatedText, Marker)[1]

\* The finalization recording the assistant turn twice.
FinalizeTwice(accumulatedText, outcome) ==
  LET finalText == FinalText(accumulatedText) IN
  /\ messages' = [i \in 1..Len(messages) |->
                    IF messages[i].id = aiMessageId
                    THEN [messages[i] EXCEPT !.message = finalText,
                                             !.streaming = FALSE]
                    ELSE messages[i]]
  /\ streamingMessage' = <<>>
  /\ conversationHistory' =
       SliceLast(conversationHistory \o <<Turn("assistant", finalText),
                                          Turn("assistant", finalText)>>,
                 HistoryWindow)
  /\ turnLog' = turnLog \o <<Turn("assistant", finalText),
                             Turn("assistant", finalText)>>
  /\ isLoading' = FALSE
  /\ pc' = "idle"
  /\ turnOutcome' = outcome

\* The statements after the read loop: the placeholder becomes the final
\* message, the live buffer is cleared, the assistant turn is recorded; then
\* finally.
Finalize(accumulatedText, outcome) ==
  LET finalText == FinalText(accumulatedText) IN
  /\ messages' = [i \in 1..Len(messages) |->
                    IF messages[i].id = aiMessageId
                    THEN [messages[i] EXCEPT !.message = finalText,
                                             !.streaming = FALSE]
                    ELSE messages[i]]
  /\ streamingMessage' = <<>>
  /\ conversationHistory' =
       SliceLast(Append(conversationHistory, Turn("assistant", finalText)),
                 HistoryWindow)
  /\ turnLog' = Append(turnLog, Turn("assistant", finalText))
  /\ isLoading' = FALSE
  /\ pc' = "idle"
  /\ turnOutcome' = outcome

\* const [textPart, metadataPart] = accumulatedText.split("___METADATA___"):
\* metadataPart is the second part of the split.
MetadataPart(accumulatedText) == SplitOn(accumulatedText, Marker)[2]

\* The marker branch without the inner try/catch: a metadata part that does
\* not parse fails the turn.
OnMarkerUncaught(accumulatedText) ==
  IF JSONparse(SplitOn(accumulatedText, Marker)[2]).ok
  THEN /\ suggestions' = ParsedSuggestions(SplitOn(accumulatedText, Marker)[2],
                                           suggestions)
       /\ Finalize(accumulatedText, "marker")
  ELSE /\ messages' = Append(messages, ErrorMessage(<<"error", clock>>))
       /\ isLoading' = FALSE
       /\ pc' = "idle"
       /\ turnOutcome' = "marker"
       /\ UNCHANGED <<suggestions, streamingMessage, conversationHistory,
                      turnLog>>

\* The branch of the read loop taken when the accumulated text includes the
\* marker: the metadata part is parsed, a failure is caught and logged, the
\* loop is left.
OnMarker(accumulatedText) ==
  /\ suggestions' = ParsedSuggestions(MetadataPart(accumulatedText),
                                      suggestions)
  /\ Finalize(accumulatedText, "marker")

\* reader.read() resolves with the next n bytes of the body; elapsed is the
\* time since the last update of the live buffer.
ReadSegment(n, elapsed) ==
  /\ pc = "read"
  /\ abortControllerRef = "live"
  /\ n \in 1..Avail
  /\ LET value == SubSeq(body, recvPos + 1, recvPos + n)
         decoded == DecodeStream(decoderRest \o value)
         accumulatedText == chunksJoined \o decoded.text
     IN
     /\ recvPos' = recvPos + n
     /\ cuts' = IF n < Avail THEN cuts + 1 ELSE cuts
     /\ decoderRest' = decoded.rest
     /\ chunksJoined' = accumulatedText
     /\ IF Includes(accumulatedText, Marker)
        THEN OnMarker(accumulatedText)
        ELSE /\ streamingMessage' =
                  IF elapsed >= UPDATE_INTERVAL THEN accumulatedText
                  ELSE streamingMessage
             /\ UNCHANGED <<messages, suggestions, conversationHistory, turnLog,
                            isLoading, pc, turnOutcome>>
  /\ UNCHANGED <<inputMessage, abortControllerRef, mounted, submitTimers,
                 aiMessageId, submitCalls, clock>>
  /\ UNCHANGED serverVars
  /\ UNCHANGED <<storeVars, widgetVars>>

\* The end of the body taken for a failure.
ReadDoneFails ==
  /\ pc = "read"
  /\ abortControllerRef = "live"
  /\ relayPc \in {"closed", "killed"}
  /\ Avail = 0
  /\ messages' = Append(messages, ErrorMessage(<<"error", clock>>))
  /\ isLoading' = FALSE
  /\ pc' = "idle"
  /\ turnOutcome' = "done"
  /\ UNCHANGED <<inputMessage, suggestions, streamingMessage,
                 conversationHistory, turnLog, abortControllerRef, mounted,
                 submitTimers, chunksJoined, decoderRest, aiMessageId,
                 submitCalls, recvPos, cuts, clock>>
  /\ UNCHANGED serverVars
  /\ UNCHANGED <<storeVars, widgetVars>>

\* reader.read() resolves with done: the body has ended and is read up.
ReadDone ==
  /\ pc = "read"
  /\ abortControllerRef = "live"
  /\ relayPc \in {"closed", "killed"}
  /\ Avail = 0
  /\ Finalize(chunksJoined, "done")
  /\ UNCHANGED <<inputMessage, suggestions, abortControllerRef, mounted,
                 submitTimers, chunksJoined, decoderRest, aiMessageId,
                 submitCalls, recvPos, cuts, clock>>
  /\ UNCHANGED serverVars
  /\ UNCHANGED <<storeVars, widgetVars>>

\* The rejected read handled without the finally block: isLoading stays set.
ReadErrorStuck ==
  /\ pc = "read"
  /\ abortControllerRef = "live"
  /\ relayPc \in {"errored", "killed"}
  /\ messages' = Append(messages, ErrorMessage(<<"error", clock>>))
  /\ pc' = "idle"
  /\ turnOutcome' = "failed"
  /\ UNCHANGED <<inputMessage, isLoading, suggestions, streamingMessage,
                 conversationHistory, turnLog, abortControllerRef, mounted,
                 submitTimers, chunksJoined, decoderRest, aiMessageId,
                 submitCalls, recvPos, cuts, clock>>
  /\ UNCHANGED serverVars
  /\ UNCHANGED <<storeVars, widgetVars>>

\* reader.read() rejects: the relay has errored the body; what was enqueued
\* and not yet read is dropped.
ReadError ==
  /\ pc = "read"
  /\ abortControllerRef = "live"
  /\ relayPc \in {"errored", "killed"}
  /\ FailTurn
  /\ UNCHANGED <<inputMessage, suggestions, streamingMessage,
                 conversationHistory, turnLog, abortControllerRef, mounted,
                 submitTimers, chunksJoined, decoderRest, aiMessageId,
                 submitCalls, recvPos, cuts, clock>>
  /\ UNCHANGED serverVars
  /\ UNCHANGED <<storeVars, widgetVars>>

\* The cleanup of the unmount effect.
Unmount ==
  /\ mounted
  /\ mounted' = FALSE
  /\ abortControllerRef' =
       IF abortControllerRef = "null" THEN "null" ELSE "aborted"
  /\ UNCHANGED <<messages, inputMessage, isLoading, suggestions,
                 streamingMessage, conversationHistory, turnLog,
                 submitTimers, pc,
                 chunksJoined, decoderRest, aiMessageId, submitCalls,
                 turnOutcome, recvPos, cuts, clock>>
  /\ UNCHANGED serverVars
  /\ UNCHANGED <<storeVars, widgetVars>>

\* The AbortError handled as any other failure.
AbortRejectedAsFailure ==
  /\ pc \in {"fetch", "read"}
  /\ abortControllerRef = "aborted"
  /\ messages' = Append(messages, ErrorMessage(<<"error", clock>>))
  /\ isLoading' = FALSE
  /\ pc' = "idle"
  /\ turnOutcome' = "aborted"
  /\ UNCHANGED <<inputMessage, suggestions, streamingMessage,
                 conversationHistory, turnLog, abortControllerRef, mounted,
                 submitTimers, chunksJoined, decoderRest, aiMessageId,
                 submitCalls, recvPos, cuts, clock>>
  /\ UNCHANGED serverVars
  /\ UNCHANGED <<storeVars, widgetVars>>

\* The pending fetch or read rejects with an AbortError: catch returns, then
\* finally.
AbortRejected ==
  /\ pc \in {"fetch", "read"}
  /\ abortControllerRef = "aborted"
  /\ isLoading' = FALSE
  /\ pc' = "idle"
  /\ turnOutcome' = "aborted"
  /\ UNCHANGED <<messages, inputMessage, suggestions, streamingMessage,
                 conversationHistory, turnLog, abortControllerRef, mounted,
                 submitTimers, chunksJoined, decoderRest, aiMessageId,
                 submitCalls, recvPos, cuts, clock>>
  /\ UNCHANGED serverVars
  /\ UNCHANGED <<storeVars, widgetVars>>

(***************************************************************************)
(* The relay: POST /api/gemini (src/unnamed/part_002).                     *)
(***************************************************************************)
MaxMessageLength == 5000
\* conversationHistory.slice(-6)
PromptWindow == 6
ApiKeyText == <<"A", "P", "I", " ", "k", "e", "y">>
QuotaText == <<"q", "u", "o", "t", "a">>
\* The outcomes of model.generateContentStream: the stream is opened, or an
\* error with this message is thrown.
StreamOpened == <<"o", "k">>
BackendOutcomes ==
  {StreamOpened,
   ApiKeyText \o <<" ", "n", "o", "t", " ", "v", "a", "l", "i", "d">>,
   <<"R", "e", "s", "o", "u", "r", "c", "e", " ">> \o QuotaText,
   <<"f", "e", "t", "c", "h", " ", "f", "a", "i", "l", "e", "d">>}
\* The message of the TypeError or SyntaxError thrown while the request is
\* read: it names neither the API key nor a quota.
RequestErrorText == <<"T", "y", "p", "e", "E", "r", "r", "o", "r">>

\* The error texts of the JSON replies.
\* "Valid message is required"
ValidMessageRequired ==
  <<"V", "a", "l", "i", "d", " ", "m", "e", "s", "s", "a", "g", "e", " ", "i",
    "s", " ", "r", "e", "q", "u", "i", "r", "e", "d">>
\* "Message is too long (max 5000 characters)"
MessageTooLong ==
  <<"M", "e", "s", "s", "a", "g", "e", " ", "i", "s", " ", "t", "o", "o", " ",
    "l", "o", "n", "g", " ", "(", "m", "a", "x", " ", "5", "0", "0", "0", " ",
    "c", "h", "a", "r", "a", "c", "t", "e", "r", "s", ")">>
\* "API configuration error. Please contact support."
ConfigurationError ==
  <<"A", "P", "I", " ", "c", "o", "n", "f", "i", "g", "u", "r", "a", "t", "i",
    "o", "n", " ", "e", "r", "r", "o", "r", ".", " ", "P", "l", "e", "a", "s",
    "e", " ", "c", "o", "n", "t", "a", "c", "t", " ", "s", "u", "p", "p", "o",
    "r", "t", ".">>
\* "Service temporarily unavailable. Please try again later."
ServiceUnavailable ==
  <<"S", "e", "r", "v", "i", "c", "e", " ", "t", "e", "m", "p", "o", "r", "a",
    "r", "i", "l", "y", " ", "u", "n", "a", "v", "a", "i", "l", "a", "b", "l",
    "e", ".", " ", "P", "l", "e", "a", "s", "e", " ", "t", "r", "y", " ", "a",
    "g", "a", "i", "n", " ", "l", "a", "t", "e", "r", ".">>
\* "Failed to process your request. Please try again."
FailedToProcess ==
  <<"F", "a", "i", "l", "e", "d", " ", "t", "o", " ", "p", "r", "o", "c", "e",
    "s", "s", " ", "y", "o", "u", "r", " ", "r", "e", "q", "u", "e", "s", "t",
    ".", " ", "P", "l", "e", "a", "s", "e", " ", "t", "r", "y", " ", "a", "g",
    "a", "i", "n", ".">>

\* The catch block answering every error alike.
ErrorStatusFlat(errorMessage) == 500

\* The status of the catch block of POST for an error message.
ErrorStatus(errorMessage) ==
  IF Includes(errorMessage, ApiKeyText) THEN 500
  ELSE IF Includes(errorMessage, QuotaText) THEN 503
  ELSE 500

\* The error text of the catch block of POST for an error message.
ErrorReply(errorMessage) ==
  IF Includes(errorMessage, ApiKeyText) THEN ConfigurationError
  ELSE IF Includes(errorMessage, QuotaText) THEN ServiceUnavailable
  ELSE FailedToProcess

\* const { message, category, conversationHistory } = await request.json()
\* throws for a body that is not JSON and for the body null.
Destructures(json) == json # Malformed /\ HasProps(json)

\* if (!message || typeof message !== "string")
InvalidMessage(message) == ~Truthy(message) \/ message.t # "str"
\* if (message.length > 5000)
TooLong(message) == Len(message.v) > MaxMessageLength

\* The text a template literal makes of a value: String(value).
RECURSIVE ToText(_)
ToText(val) ==
  IF val.t = "undef" THEN <<"u", "n", "d", "e", "f", "i", "n", "e", "d">>
  ELSE IF val.t = "arr" THEN
    Join([i \in 1..Len(val.v) |->
            IF HasProps(val.v[i]) THEN ToText(val.v[i]) ELSE <<>>], <<",">>)
  ELSE IF val.t = "obj" THEN
    <<"[", "o", "b", "j", "e", "c", "t", " ", "O", "b", "j", "e", "c", "t", "]">>
  ELSE val.v

Patient == <<"P", "a", "t", "i", "e", "n", "t">>
MedAssist == <<"M", "e", "d", "A", "s", "s", "i", "s", "t">>
GeneralHealth ==
  <<"G", "e", "n", "e", "r", "a", "l", " ", "H", "e", "a", "l", "t", "h">>
\* "\n\nPrevious conversation context:\n"
ContextHeader ==
  <<"\n", "\n", "P", "r", "e", "v", "i", "o", "u", "s", " ", "c", "o", "n",
    "v", "e", "r", "s", "a", "t", "i", "o", "n", " ", "c", "o", "n", "t", "e",
    "x", "t", ":", "\n">>

\* msg.role === "user" ? "Patient" : "MedAssist"
RoleLabel(role) == IF role = JStr(RoleUser) THEN Patient ELSE MedAssist
\* `${label}: ${msg.content}`
RenderTurn(msg) ==
  RoleLabel(GetProp(msg, KeyRole)) \o <<":", " ">>
    \o ToText(GetProp(msg, KeyContent))

\* conversationHistory && Array.isArray(conversationHistory) &&
\* conversationHistory.length > 0
HasTranscript(history) ==
  Truthy(history) /\ history.t = "arr" /\ Len(history.v) > 0

\* msg.role throws a TypeError for an element that is null.
ContextThrows(history) ==
  /\ HasTranscript(history)
  /\ \E i \in 1..Len(history.v) :
       /\ i > Len(history.v) - PromptWindow
       /\ ~HasProps(history.v[i])

\* The transcript of the whole history.
ConversationContextWhole(history) ==
  IF HasTranscript(history)
  THEN ContextHeader
         \o Join([i \in 1..Len(history.v) |-> RenderTurn(history.v[i])],
                 <<"\n">>)
  ELSE <<>>

\* conversationContext of POST
ConversationContext(history) ==
  IF HasTranscript(history)
  THEN LET last == SliceLast(history.v, PromptWindow) IN
       ContextHeader
         \o Join([i \in 1..Len(last) |-> RenderTurn(last[i])], <<"\n">>)
  ELSE <<>>

\* ${category || "General Health"}
CategoryLabel(category) ==
  IF Truthy(category) THEN ToText(category) ELSE GeneralHealth

\* contextPrompt of POST by its three interpolations; the text of the template
\* around them is the same for every request.
ContextPrompt(message, category, history) ==
  [category |-> CategoryLabel(category),
   message |-> message.v,
   context |-> ConversationContext(history)]

\* NextResponse.json({ error }, { status })
ReplyJson(status, error) ==
  /\ httpStatus' = status
  /\ replyError' = error
  /\ relayPc' = "replied"
  /\ upstream' = "none"

\* The catch block of POST: the error is logged and answered by its status.
ReplyCaught(errorMessage) ==
  /\ ReplyJson(ErrorStatus(errorMessage), ErrorReply(errorMessage))
  /\ caughtError' = errorMessage

\* POST up to its response: the request is read and validated, the prompt is
\* built, the backend is called; an error thrown on the way is answered by
\* the catch block.
ServerHandle(outcome) ==
  /\ relayPc = "received"
  /\ LET message == GetProp(request, KeyMessage)
         category == GetProp(request, KeyCategory)
         history == GetProp(request, KeyConversationHistory)
     IN
     IF ~Destructures(request)
     THEN /\ ReplyCaught(RequestErrorText)
          /\ UNCHANGED prompt
     ELSE IF InvalidMessage(message)
     THEN /\ ReplyJson(400, ValidMessageRequired)
          /\ UNCHANGED <<prompt, caughtError>>
     ELSE IF TooLong(message)
     THEN /\ ReplyJson(400, MessageTooLong)
          /\ UNCHANGED <<prompt, caughtError>>
     ELSE IF ContextThrows(history)
     THEN /\ ReplyCaught(RequestErrorText)
          /\ UNCHANGED prompt
     ELSE /\ prompt' = ContextPrompt(message, category, history)
          /\ IF outcome # StreamOpened
             THEN ReplyCaught(outcome)
             ELSE /\ httpStatus' = 200
                  /\ relayPc' = "streaming"
                  /\ upstream' = "running"
                  /\ UNCHANGED <<replyError, caughtError>>
  /\ UNCHANGED <<request, produced, fullText, emitted, body>>
  /\ UNCHANGED clientVars
  /\ UNCHANGED <<storeVars, widgetVars>>

\* One iteration of for await (const chunk of result.stream).
RelayChunk(chunkText) ==
  /\ relayPc = "streaming"
  /\ produced' = Append(produced, chunkText)
  /\ fullText' = fullText \o chunkText
  /\ emitted' = Append(emitted, chunkText)
  /\ body' = body \o Encode(chunkText)
  /\ UNCHANGED <<request, prompt, replyError, caughtError,
                 httpStatus, relayPc, upstream>>
  /\ UNCHANGED clientVars
  /\ UNCHANGED <<storeVars, widgetVars>>

\* The metadata segment without controller.close().
RelayFinishNoClose(timestamp) ==
  /\ relayPc = "streaming"
  /\ upstream = "running"
  /\ LET segment == MetadataSegment(fullText, timestamp, GetProp(request, KeyCategory)) IN
     /\ emitted' = Append(emitted, segment)
     /\ body' = body \o Encode(segment)
  /\ upstream' = "done"
  /\ UNCHANGED <<request, prompt, replyError, caughtError,
                 httpStatus, relayPc, produced, fullText>>
  /\ UNCHANGED clientVars
  /\ UNCHANGED <<storeVars, widgetVars>>

\* The backend's sequence ends: the metadata segment, then close.
RelayFinish(timestamp) ==
  /\ relayPc = "streaming"
  /\ LET segment == MetadataSegment(fullText, timestamp, GetProp(request, KeyCategory)) IN
     /\ emitted' = Append(emitted, segment)
     /\ body' = body \o Encode(segment)
  /\ relayPc' = "closed"
  /\ upstream' = "done"
  /\ UNCHANGED <<request, prompt, replyError, caughtError,
                 httpStatus, produced, fullText>>
  /\ UNCHANGED clientVars
  /\ UNCHANGED <<storeVars, widgetVars>>

\* The catch block closing the channel instead of signalling the error.
RelayErrorSilent ==
  /\ relayPc = "streaming"
  /\ relayPc' = "closed"
  /\ upstream' = "failed"
  /\ UNCHANGED <<request, prompt, replyError, caughtError,
                 httpStatus, produced, fullText, emitted, body>>
  /\ UNCHANGED clientVars
  /\ UNCHANGED <<storeVars, widgetVars>>

\* The backend's sequence throws: controller.error.
RelayError ==
  /\ relayPc = "streaming"
  /\ relayPc' = "errored"
  /\ upstream' = "failed"
  /\ UNCHANGED <<request, prompt, replyError, caughtError,
                 httpStatus, produced, fullText, emitted, body>>
  /\ UNCHANGED clientVars
  /\ UNCHANGED <<storeVars, widgetVars>>

\* The platform stops the handler at maxDuration while it is streaming: the
\* body ends where it is, without a metadata segment; the consumer's read
\* then ends or fails.
MaxDurationExceeded ==
  /\ relayPc = "streaming"
  /\ relayPc' = "killed"
  /\ UNCHANGED <<request, prompt, replyError, caughtError,
                 httpStatus, upstream, produced, fullText, emitted,
                 body>>
  /\ UNCHANGED clientVars
  /\ UNCHANGED <<storeVars, widgetVars>>

\* A request of another caller of the endpoint arrives at POST.
Post(json) ==
  /\ relayPc = "none"
  /\ request' = json
  /\ relayPc' = "received"
  /\ UNCHANGED <<prompt, replyError, caughtError, httpStatus, upstream,
                 produced, fullText, emitted, body>>
  /\ UNCHANGED clientVars
  /\ UNCHANGED <<storeVars, widgetVars>>

\* The consumer has aborted its fetch and the platform cancels the stream of
\* the response: start() is not told (the stream has no cancel callback and
\* POST reads no signal) and goes on.
StreamCancelled ==
  /\ relayPc = "streaming"
  /\ abortControllerRef = "aborted"
  /\ relayPc' = "cancelled"
  /\ UNCHANGED <<request, prompt, replyError, caughtError,
                 httpStatus, upstream, produced,
                 fullText, emitted, body>>
  /\ UNCHANGED clientVars
  /\ UNCHANGED <<storeVars, widgetVars>>

\* One more iteration of the loop on a cancelled stream: the chunk is read and
\* added to fullText, controller.enqueue throws a TypeError, which leaves the
\* loop for the catch block, where controller.error does nothing.
RelayChunkCancelled(chunkText) ==
  /\ relayPc = "cancelled"
  /\ produced' = Append(produced, chunkText)
  /\ fullText' = fullText \o chunkText
  /\ relayPc' = "stopped"
  /\ upstream' = "abandoned"
  /\ UNCHANGED <<request, prompt, replyError, caughtError,
                 httpStatus, emitted, body>>
  /\ UNCHANGED clientVars
  /\ UNCHANGED <<storeVars, widgetVars>>

\* The backend's sequence ends on a cancelled stream: controller.enqueue of
\* the metadata segment throws, nothing is emitted.
RelayFinishCancelled ==
  /\ relayPc = "cancelled"
  /\ relayPc' = "stopped"
  /\ upstream' = "done"
  /\ UNCHANGED <<request, prompt, replyError, caughtError,
                 httpStatus, produced, fullText,
                 emitted, body>>
  /\ UNCHANGED clientVars
  /\ UNCHANGED <<storeVars, widgetVars>>

\* The backend's sequence throws on a cancelled stream.
RelayErrorCancelled ==
  /\ relayPc = "cancelled"
  /\ relayPc' = "stopped"
  /\ upstream' = "failed"
  /\ UNCHANGED <<request, prompt, replyError, caughtError,
                 httpStatus, produced, fullText,
                 emitted, body>>
  /\ UNCHANGED clientVars
  /\ UNCHANGED <<storeVars, widgetVars>>

(***************************************************************************)
(* The functions of the diagnosis store and the routes that use it         *)
(* (diagnosesStore.ts; src/unnamed/part_001: GET of a diagnosis by id and  *)
(* POST of a doctor's review).                                             *)
(***************************************************************************)
\* getDiagnosis(id)
getDiagnosis(id) ==
  /\ storeResult' =
       Result("getDiagnosis", id, <<>>, 0,
              Lookup(diagnoses, id).kind # "undefined",
              Lookup(diagnoses, id).rec)
  /\ UNCHANGED <<diagnoses, diagnosesCounter, reviewClock>>
  /\ storeCalls' = storeCalls + 1
  /\ UNCHANGED <<chatVars, widgetVars>>

\* addDiagnosis(diagnosis): the next id is the counter as a string.
addDiagnosis(diagnosis) ==
  LET id == ToString(diagnosesCounter + 1)
      newDiagnosis == Spread(diagnosis, [id |-> id])
  IN
  /\ diagnosesCounter' = diagnosesCounter + 1
  /\ diagnoses' = Assign(diagnoses, id, newDiagnosis)
  /\ storeResult' = Result("addDiagnosis", id, diagnosis, 0, TRUE, newDiagnosis)
  /\ UNCHANGED reviewClock
  /\ storeCalls' = storeCalls + 1
  /\ UNCHANGED <<chatVars, widgetVars>>

\* updateDiagnosis(id, updates)
updateDiagnosis(id, updates) ==
  LET found == Lookup(diagnoses, id)
      updated == Spread(found.rec, updates)
  IN
  /\ IF found.kind = "undefined"
     THEN /\ storeResult' =
               Result("updateDiagnosis", id, updates, 0, FALSE, <<>>)
          /\ UNCHANGED diagnoses
     ELSE /\ diagnoses' = Assign(diagnoses, id, updated)
          /\ storeResult' =
               Result("updateDiagnosis", id, updates, 0, TRUE, updated)
  /\ UNCHANGED <<diagnosesCounter, reviewClock>>
  /\ storeCalls' = storeCalls + 1
  /\ UNCHANGED <<chatVars, widgetVars>>

\* GET /api/diagnoses/[id].  NextResponse.json of a function has no JSON
\* text to send: depending on the version of the framework the response is
\* empty or the TypeError is caught and answered 500.
GetDiagnosisById(id, emptyReply) ==
  LET diagnosis == Lookup(diagnoses, id) IN
  /\ storeResult' =
       IF diagnosis.kind = "undefined"
       THEN Result("GET", id, <<>>, 404, FALSE, <<>>)
       ELSE IF diagnosis.kind = "record"
       THEN Result("GET", id, <<>>, 200, TRUE, diagnosis.rec)
       ELSE IF emptyReply
       THEN Result("GET", id, <<>>, 200, FALSE, <<>>)
       ELSE Result("GET", id, <<>>, 500, FALSE, <<>>)
  /\ UNCHANGED <<diagnoses, diagnosesCounter, reviewClock>>
  /\ storeCalls' = storeCalls + 1
  /\ UNCHANGED <<chatVars, widgetVars>>

KeyAction ==
  <<"a", "c", "t", "i", "o", "n">>
KeyFeedback ==
  <<"f", "e", "e", "d", "b", "a", "c", "k">>
KeyDoctorName ==
  <<"d", "o", "c", "t", "o", "r", "N", "a", "m", "e">>
Approve ==
  <<"a", "p", "p", "r", "o", "v", "e">>
Reject ==
  <<"r", "e", "j", "e", "c", "t">>

\* !action || !['approve', 'reject'].includes(action)
InvalidAction(action) ==
  ~Truthy(action) \/ action.t # "str" \/ action.v \notin {Approve, Reject}
\* value.trim() of a truthy value that is not a string throws a TypeError.
TrimThrows(val) == Truthy(val) /\ val.t # "str"
\* !value || value.trim() === ''
Blank(val) == ~Truthy(val) \/ (val.t = "str" /\ Len(Trim(val.v)) = 0)

\* The status of the reply the validation of a review ends with, 0 when
\* the request passes it.
ReviewRejection(json) ==
  IF ~Destructures(json) THEN 500
  ELSE IF InvalidAction(GetProp(json, KeyAction)) THEN 400
  ELSE IF TrimThrows(GetProp(json, KeyFeedback)) THEN 500
  ELSE IF Blank(GetProp(json, KeyFeedback)) THEN 400
  ELSE IF TrimThrows(GetProp(json, KeyDoctorName)) THEN 500
  ELSE IF Blank(GetProp(json, KeyDoctorName)) THEN 400
  ELSE 0

\* action === 'approve' ? 'approved' : 'rejected'
Verdict(action) == IF action.v = Approve THEN "approved" ELSE "rejected"

\* if (diagnoses[id]) { diagnoses[id] = { ...diagnoses[id], status, doctorName,
\* doctorFeedback, reviewDate } }: the current status is not looked at.
ReviewWrite(id, json) ==
  IF Lookup(diagnoses, id).kind = "undefined"
  THEN UNCHANGED <<diagnoses, reviewClock>>
  ELSE /\ diagnoses' =
            Assign(diagnoses, id,
                   Spread(Lookup(diagnoses, id).rec,
                          [status |-> Verdict(GetProp(json, KeyAction)),
                           doctorName |-> GetProp(json, KeyDoctorName).v,
                           doctorFeedback |-> GetProp(json, KeyFeedback).v,
                           reviewDate |-> reviewClock + 1]))
       /\ reviewClock' = reviewClock + 1

\* POST /api/diagnoses/[id]/review: a request that passes the validation is
\* answered { success: true, message, diagnosisId } whether or not the store
\* has the id.
ReviewDiagnosis(id, json) ==
  /\ IF ReviewRejection(json) # 0
     THEN /\ storeResult' =
               Result("review", id, json, ReviewRejection(json), FALSE, <<>>)
          /\ UNCHANGED <<diagnoses, reviewClock>>
     ELSE /\ ReviewWrite(id, json)
          /\ storeResult' =
               Result("review", id, json, 200, TRUE,
                      [success |-> TRUE,
                       message |-> Verdict(GetProp(json, KeyAction)),
                       diagnosisId |-> id])
  /\ UNCHANGED diagnosesCounter
  /\ storeCalls' = storeCalls + 1
  /\ UNCHANGED <<chatVars, widgetVars>>

(***************************************************************************)
(* The chat-widget store (src/medi_box/src/lib/hooks/useChatWidget.ts).    *)
(***************************************************************************)
widgetState ==
  <<widgetMessages, input, loading, currentStreamingMessage, savedMessages,
    calls, requestsStarted, lastCall>>

\* toggleChat inverting isMinimized and leaving isOpen alone.
toggleChatMinimizedOnly ==
  /\ isMinimized' = ~isMinimized
  /\ UNCHANGED isOpen
  /\ UNCHANGED widgetState
  /\ UNCHANGED <<chatVars, storeVars>>

\* toggleChat: isMinimized is inverted; isOpen becomes true when the widget
\* was minimized and is kept otherwise.
toggleChat ==
  /\ isMinimized' = ~isMinimized
  /\ isOpen' = IF isMinimized THEN TRUE ELSE isOpen
  /\ UNCHANGED widgetState
  /\ UNCHANGED <<chatVars, storeVars>>

\* closeChat, which handleCloseWidget of ChatWidget calls
closeChat ==
  /\ isOpen' = FALSE
  /\ isMinimized' = TRUE
  /\ UNCHANGED widgetState
  /\ UNCHANGED <<chatVars, storeVars>>

openChat ==
  /\ isOpen' = TRUE
  /\ isMinimized' = FALSE
  /\ UNCHANGED widgetState
  /\ UNCHANGED <<chatVars, storeVars>>

(***************************************************************************)
(* ChatWidget (src/unnamed/part_005).  A message is its role, content and  *)
(* suggestions; its timestamp is left out.  An invocation of getAIResponse *)
(* that is running is a record of calls: phase "fetch" or "read", the      *)
(* segments of the response body not yet read with the way the body ends,  *)
(* accumulatedResponse, the number of reads that did not return one        *)
(* segment as the relay enqueued it, and the text the backend produced.    *)
(***************************************************************************)
\* "General Consultation"
GeneralConsultation ==
  <<"G", "e", "n", "e", "r", "a", "l", " ", "C", "o", "n", "s", "u", "l", "t",
    "a", "t", "i", "o", "n">>
\* "I apologize, but I'm having trouble processing your request. Please try
\* again."
WidgetErrorText ==
  <<"I", " ", "a", "p", "o", "l", "o", "g", "i", "z", "e", ",", " ", "b", "u",
    "t", " ", "I", "'", "m", " ", "h", "a", "v", "i", "n", "g", " ", "t", "r",
    "o", "u", "b", "l", "e", " ", "p", "r", "o", "c", "e", "s", "s", "i", "n",
    "g", " ", "y", "o", "u", "r", " ", "r", "e", "q", "u", "e", "s", "t", ".",
    " ", "P", "l", "e", "a", "s", "e", " ", "t", "r", "y", " ", "a", "g", "a",
    "i", "n", ".">>

UserEntry(content) ==
  [role |-> "user", content |-> content, suggestions |-> JUndef]
AssistantEntry(content, suggested) ==
  [role |-> "assistant", content |-> content, suggestions |-> suggested]

RemoveAt(seq, i) == SubSeq(seq, 1, i - 1) \o SubSeq(seq, i + 1, Len(seq))

\* The body of the relay's response to { message, category: "General
\* Consultation" } as the segments it enqueues: the chunks of the backend,
\* then the metadata segment when the backend's sequence ends.
WidgetResponse(chunkTexts, timestamp, ending) ==
  [i \in 1..Len(chunkTexts) |-> Encode(chunkTexts[i])]
    \o (IF ending = "closed"
        THEN <<Encode(MetadataSegment(Concat(chunkTexts), timestamp,
                                      JStr(GeneralConsultation)))>>
        ELSE <<>>)

\* The bytes of the segments in order.
RECURSIVE Flatten(_)
Flatten(segments) ==
  IF Len(segments) = 0 THEN <<>>
  ELSE Head(segments) \o Flatten(Tail(segments))

\* The segments left once the first n bytes are read.
RECURSIVE DropBytes(_, _)
DropBytes(segments, n) ==
  IF n = 0 \/ Len(segments) = 0 THEN segments
  ELSE IF n < Len(Head(segments))
  THEN <<SubSeq(Head(segments), n + 1, Len(Head(segments)))>>
         \o Tail(segments)
  ELSE DropBytes(Tail(segments), n - Len(Head(segments)))

\* new TextDecoder().decode(value): a decoder of its own for every read, so
\* an incomplete sequence at the end of value becomes U+FFFD.
DecodeFresh(value) ==
  DecodeRange(value, 1, Len(value))
    \o (IF PartialAt(value, Len(value) - 1) \/ PartialAt(value, Len(value))
        THEN <<Replacement>> ELSE <<>>)

\* The effect on [messages]: localStorage.setItem when messages.length > 0.
SaveMessages ==
  savedMessages' =
    IF Len(widgetMessages') > 0 THEN widgetMessages' ELSE savedMessages

\* onChange of the input field, which is never disabled.
WidgetSetInput(m) ==
  /\ input' = m
  /\ UNCHANGED <<widgetMessages, loading, currentStreamingMessage,
                 savedMessages, calls, requestsStarted, lastCall>>
  /\ UNCHANGED <<isOpen, isMinimized>>
  /\ UNCHANGED <<chatVars, storeVars>>

\* getAIResponse up to its await of fetch.
getAIResponse(userMessage) ==
  /\ loading' = TRUE
  /\ currentStreamingMessage' = <<>>
  /\ calls' = Append(calls, [phase |-> "fetch", segments |-> <<>>,
                             ending |-> "none", accumulatedResponse |-> <<>>,
                             cuts |-> 0, fullText |-> <<>>])
  /\ requestsStarted' = requestsStarted + 1

\* handleSubmit of ChatWidget: if (!input.trim()) return; the user message,
\* the input cleared, getAIResponse(input).
handleSubmit ==
  /\ IF Len(Trim(input)) = 0
     THEN UNCHANGED widgetState
     ELSE /\ widgetMessages' = Append(widgetMessages, UserEntry(input))
          /\ input' = <<>>
          /\ getAIResponse(input)
          /\ SaveMessages
          /\ UNCHANGED lastCall
  /\ UNCHANGED <<isOpen, isMinimized>>
  /\ UNCHANGED <<chatVars, storeVars>>

\* The submit event of the widget's form: the send button is disabled while
\* the input is blank or loading is true, and a form whose submit button is
\* disabled is not submitted by the Enter key.
WidgetFormSubmit ==
  /\ Len(Trim(input)) > 0
  /\ ~loading
  /\ handleSubmit

\* The suggestions rendered as buttons: those of the assistant messages.
SuggestionChips ==
  UNION {{widgetMessages[i].suggestions.v[j].v :
            j \in 1..Len(widgetMessages[i].suggestions.v)} :
         i \in {k \in 1..Len(widgetMessages) :
                  /\ widgetMessages[k].role = "assistant"
                  /\ widgetMessages[k].suggestions.t = "arr"}}

\* handleSuggestionClick: the user message, then getAIResponse(suggestion);
\* the buttons are not disabled while loading.
handleSuggestionClick(suggestion) ==
  /\ suggestion \in SuggestionChips
  /\ widgetMessages' = Append(widgetMessages, UserEntry(suggestion))
  /\ getAIResponse(suggestion)
  /\ SaveMessages
  /\ UNCHANGED <<input, lastCall>>
  /\ UNCHANGED <<isOpen, isMinimized>>
  /\ UNCHANGED <<chatVars, storeVars>>

\* catch and finally of getAIResponse: the error message, loading false.
WidgetFail(i, how) ==
  /\ widgetMessages' =
       Append(widgetMessages, AssistantEntry(WidgetErrorText, JUndef))
  /\ SaveMessages
  /\ loading' = FALSE
  /\ calls' = RemoveAt(calls, i)
  /\ lastCall' = [how |-> how, ending |-> calls[i].ending,
                  fullText |-> calls[i].fullText]
  /\ UNCHANGED <<input, currentStreamingMessage, requestsStarted>>
  /\ UNCHANGED <<isOpen, isMinimized>>
  /\ UNCHANGED <<chatVars, storeVars>>

\* fetch of invocation i resolves: a status that is not OK throws; an OK
\* response is read.  The body is the relay's for the chunks the backend
\* produces, ended by close or by an error of the stream.
WidgetFetchResolve(i, status, chunkTexts, timestamp, ending) ==
  /\ i \in 1..Len(calls)
  /\ calls[i].phase = "fetch"
  /\ IF status # 200
     THEN WidgetFail(i, "status")
     ELSE /\ calls' =
               [calls EXCEPT
                  ![i] = [phase |-> "read",
                          segments |->
                            WidgetResponse(chunkTexts, timestamp, ending),
                          ending |-> ending,
                          accumulatedResponse |-> <<>>,
                          cuts |-> 0,
                          fullText |-> Concat(chunkTexts)]]
          /\ UNCHANGED <<widgetMessages, input, loading,
                         currentStreamingMessage, savedMessages,
                         requestsStarted, lastCall>>
          /\ UNCHANGED <<isOpen, isMinimized>>
          /\ UNCHANGED <<chatVars, storeVars>>

\* fetch of invocation i rejects.
WidgetFetchFail(i) ==
  /\ i \in 1..Len(calls)
  /\ calls[i].phase = "fetch"
  /\ WidgetFail(i, "network")

\* reader.read() of invocation i resolves with the next n bytes.  A chunk
\* that parses as JSON with truthy suggestions and done ends the loop with
\* the assistant message; one that parses otherwise is skipped; one that
\* does not parse, or parses as null, is added to accumulatedResponse, which
\* becomes the streaming message.
WidgetRead(i, n, maxCuts) ==
  /\ i \in 1..Len(calls)
  /\ calls[i].phase = "read"
  /\ Len(calls[i].segments) > 0
  /\ n \in 1..Len(Flatten(calls[i].segments))
  /\ n = Len(calls[i].segments[1]) \/ calls[i].cuts < maxCuts
  /\ LET chunk == DecodeFresh(SubSeq(Flatten(calls[i].segments), 1, n))
         jsonData == JSONparse(chunk)
         caught == ~jsonData.ok \/ ~HasProps(jsonData.val)
         isMetadata ==
           /\ ~caught
           /\ Truthy(GetProp(jsonData.val, KeySuggestions))
           /\ Truthy(GetProp(jsonData.val, KeyDone))
         accumulated == calls[i].accumulatedResponse \o chunk
     IN
     IF isMetadata
     THEN /\ widgetMessages' =
               Append(widgetMessages,
                      AssistantEntry(Trim(calls[i].accumulatedResponse),
                                     GetProp(jsonData.val, KeySuggestions)))
          /\ SaveMessages
          /\ currentStreamingMessage' = <<>>
          /\ loading' = FALSE
          /\ calls' = RemoveAt(calls, i)
          /\ lastCall' = [how |-> "metadata", ending |-> calls[i].ending,
                          fullText |-> calls[i].fullText]
          /\ UNCHANGED <<input, requestsStarted>>
     ELSE /\ calls' =
               [calls EXCEPT
                  ![i].segments = DropBytes(calls[i].segments, n),
                  ![i].cuts = IF n = Len(calls[i].segments[1]) THEN @
                              ELSE @ + 1,
                  ![i].accumulatedResponse = IF caught THEN accumulated
                                             ELSE @]
          /\ currentStreamingMessage' =
               IF caught THEN accumulated ELSE currentStreamingMessage
          /\ UNCHANGED <<widgetMessages, input, loading, savedMessages,
                         requestsStarted, lastCall>>
  /\ UNCHANGED <<isOpen, isMinimized>>
  /\ UNCHANGED <<chatVars, storeVars>>

\* reader.read() of invocation i resolves with done: the loop is left and
\* finally sets loading false; no message is added and the streaming
\* message is kept.
WidgetReadDone(i) ==
  /\ i \in 1..Len(calls)
  /\ calls[i].phase = "read"
  /\ calls[i].ending = "closed"
  /\ Len(calls[i].segments) = 0
  /\ loading' = FALSE
  /\ calls' = RemoveAt(calls, i)
  /\ lastCall' = [how |-> "done", ending |-> calls[i].ending,
                  fullText |-> calls[i].fullText]
  /\ UNCHANGED <<widgetMessages, input, currentStreamingMessage,
                 savedMessages, requestsStarted>>
  /\ UNCHANGED <<isOpen, isMinimized>>
  /\ UNCHANGED <<chatVars, storeVars>>

\* reader.read() of invocation i rejects: the relay has errored the body.
WidgetReadError(i) ==
  /\ i \in 1..Len(calls)
  /\ calls[i].phase = "read"
  /\ calls[i].ending = "errored"
  /\ WidgetFail(i, "stream")

(***************************************************************************)
(* Inputs and bounds.                                                      *)
(***************************************************************************)
\* "Hi"
TextHi == <<"H", "i">>
\* "**Follow-up Questions:**\n• Is flu bad now?"
TextFollowUp ==
  <<"*", "*", "F", "o", "l", "l", "o", "w", "-", "u", "p", " ", "Q", "u", "e",
    "s", "t", "i", "o", "n", "s", ":", "*", "*", "\n", Bullet, " ", "I", "s",
    " ", "f", "l", "u", " ", "b", "a", "d", " ", "n", "o", "w", "?">>
\* "a___METADATA___b": content that spells the marker
TextMarked == <<"a">> \o Marker \o <<"b">>

\* The chunks the backend may produce.
ChunkPool == {TextHi, TextFollowUp, TextMarked}
ConvChunkPool == {TextHi}
\* The values the user types or the parent passes to sendMessage.
InputPool == {<<" ">>, <<" ", "q", " ">>}
\* new Date().toISOString()
TimestampPool == {<<"T">>}
\* Date.now() - lastUpdateTime at a read
ElapsedPool == {0, UPDATE_INTERVAL}


\* The request bodies of other callers: the members of the body that are
\* undefined are absent from it.
DirectBody(message, category, history) ==
  JObj(SelectSeq(RequestBody(message, category, history).v,
                 LAMBDA m : m.v # JUndef))
Filled(n, c) == [i \in 1..n |-> c]
MessagePool ==
  {JUndef, JStr(<<>>), JTrue, JArr(<<JStr(<<"q">>)>>), JStr(<<"q">>),
   JStr(Filled(MaxMessageLength, "x")), JStr(Filled(MaxMessageLength + 1, "x"))}
CategoryPool == {JUndef, JStr(<<>>), JStr(<<"S", "k", "i", "n">>)}
TurnValue(role, content) ==
  JObj(<<[k |-> KeyRole, v |-> JStr(role)],
         [k |-> KeyContent, v |-> JStr(content)]>>)
\* Two turns, the second of a role that is not user.
HistoryOfTwo ==
  JArr(<<TurnValue(RoleUser, <<"a">>),
         TurnValue(<<"s", "y", "s", "t", "e", "m">>, <<"b">>)>>)
\* Seven turns of different contents.
HistoryOfSeven ==
  JArr(<<TurnValue(RoleUser, <<"1">>), TurnValue(RoleAssistant, <<"2">>),
         TurnValue(RoleUser, <<"3">>), TurnValue(RoleAssistant, <<"4">>),
         TurnValue(RoleUser, <<"5">>), TurnValue(RoleAssistant, <<"6">>),
         TurnValue(RoleUser, <<"7">>)>>)
HistoryPool ==
  {JUndef, JArr(<<>>), JStr(<<"h">>), JArr(<<JNull>>), HistoryOfTwo,
   HistoryOfSeven}
RequestPool ==
  {JNull, Malformed}
    \cup {DirectBody(m, c, h) :
            m \in MessagePool, c \in CategoryPool, h \in HistoryPool}

\* Chunks of a Follow-up Questions section: the heading, and lines of the
\* lengths 10, 11, 149 and 150 after their bullet.
\* "**Follow-up Questions:**"
TextHeading ==
  <<"*", "*", "F", "o", "l", "l", "o", "w", "-", "u", "p", " ", "Q", "u", "e",
    "s", "t", "i", "o", "n", "s", ":", "*", "*">>
SectionLine(n, c) == <<"\n", "-", " ">> \o Filled(n, c)
\* a section of five questions
TextFiveQuestions ==
  <<"*", "*", "F", "o", "l", "l", "o", "w", "-", "u", "p", " ", "q", "u", "e",
    "s", "t", "i", "o", "n", "s", ":", "*", "*", "\n", "-", " ", "I", "s",
    " ", "f", "l", "u", " ", "b", "a", "d", " ", "n", "o", "w", "?", "\n",
    "*", " ", "H", "o", "w", " ", "l", "o", "n", "g", " ", "i", "s", " ", "i",
    "t", "?", "\n", Bullet, " ", "S", "h", "o", "u", "l", "d", " ", "I", " ",
    "r", "e", "s", "t", "?", "\n", "-", " ", "C", "a", "n", " ", "I", " ",
    "g", "o", " ", "o", "u", "t", "?", "\n", "-", " ", "I", "s", " ", "i",
    "t", " ", "c", "a", "t", "c", "h", "i", "n", "g", "?">>
ExtractChunkPool ==
  {TextHi, TextHeading, TextFiveQuestions,
   SectionLine(MinSuggestionLen, "a"), SectionLine(MinSuggestionLen + 1, "b"),
   SectionLine(MaxSuggestionLen - 1, "c"), SectionLine(MaxSuggestionLen, "d")}
ExtractRequestPool ==
  {DirectBody(JStr(<<"q">>), c, JUndef) : c \in CategoryPool}
\* The messages of a long conversation.
HistoryInputPool == {<<"q">>}

\* The ids of the requests: two sample records, the first id addDiagnosis
\* gives out, and a name every object inherits.
IdPool == {"1", "2", "4", "constructor"}
\* Partial<DiagnosisData>
UpdatesPool ==
  {<<>>, [status |-> "rejected"],
   [doctorName |-> <<"D", "r">>, reviewDate |-> 0]}
\* The record the creation route passes to addDiagnosis.
NewDiagnosisPool ==
  {[aiDiagnosis |-> "Pending AI diagnosis", status |-> "pending",
    doctorName |-> PendingReview, doctorFeedback |-> <<>>]}
\* The bodies of review requests: the members that are undefined are absent.
ReviewBody(action, feedback, doctorName) ==
  JObj(SelectSeq(<<[k |-> KeyAction, v |-> action],
                   [k |-> KeyFeedback, v |-> feedback],
                   [k |-> KeyDoctorName, v |-> doctorName]>>,
                 LAMBDA m : m.v # JUndef))
ReviewBodyPool ==
  {JNull,
   ReviewBody(JStr(<<"d", "e", "l", "e", "t", "e">>), JStr(<<"o", "k">>),
              JStr(<<"D", "r">>)),
   ReviewBody(JStr(Approve), JStr(<<" ">>), JStr(<<"D", "r">>)),
   ReviewBody(JStr(Approve), JTrue, JStr(<<"D", "r">>)),
   ReviewBody(JStr(Reject), JStr(<<"o", "k">>), JUndef),
   ReviewBody(JStr(Approve), JStr(<<"o", "k">>), JStr(<<"D", "r">>)),
   ReviewBody(JStr(Reject), JStr(<<"n", "o">>), JStr(<<"D", "r">>))}

\* The values typed into the widget's input.
WidgetInputPool == {<<"q">>}
\* The chunks the backend produces for a request of the widget.
WidgetChunksPool == {<<TextHi>>, <<TextFollowUp>>}
\* The lengths of the reads of the widget: the next segment as the relay
\* enqueued it, or the bytes up to the end of a line.
WidgetReadLengths(segments) ==
  IF Len(segments) = 0 THEN {}
  ELSE {Len(segments[1])}
         \cup {k \in 1..Len(Flatten(segments)) : Flatten(segments)[k] = "\n"}
\* The statuses of the relay's response.
WidgetStatusPool == {200, 500}
\* How the body of an OK response ends.
WidgetEndingPool == {"closed", "errored"}

MaxChunks == 2
MaxCuts == 1
MaxRequests == 2
MaxConvChunks == 1
MaxTimers == 1
MaxSubmitCalls == 3
MaxHistoryRequests == 6
MaxExtractChunks == 3
MaxCancelChunks == 2
MaxStoreCalls == 3
MaxLiveRequests == 2
MaxLiveChunks == 1
MaxWidgetRequests == 3
MaxWidgetCuts == 1

(***************************************************************************)
(* Spec: a conversation of several requests, every segment read whole.     *)
(***************************************************************************)
Next ==
  \/ \E m \in InputPool : SetInput(m)
  \/ \E m \in InputPool : submitTimers < MaxTimers /\ SendMessage(m)
  \/ clock < MaxRequests /\ FormSubmit
  \/ clock < MaxRequests /\ submitCalls < MaxSubmitCalls /\ TimerSubmit
  \/ FetchResolve
  \/ FetchFail
  \/ \E e \in ElapsedPool : ReadSegment(Avail, e)
  \/ ReadDone
  \/ ReadError
  \/ Unmount
  \/ AbortRejected
  \/ \E o \in BackendOutcomes : ServerHandle(o)
  \/ \E c \in ConvChunkPool : Len(produced) < MaxConvChunks /\ RelayChunk(c)
  \/ \E t \in TimestampPool : RelayFinish(t)
  \/ RelayError
  \/ MaxDurationExceeded

Spec == Init /\ [][Next]_vars

(***************************************************************************)
(* SpecLive: the conversation of Spec on form submissions, with the        *)
(* progress the platform gives: the handler answers; the backend's         *)
(* sequence ends, throws or is stopped at maxDuration; the continuations   *)
(* of the consumer's awaits run once they can.                             *)
(***************************************************************************)
\* The handler answers a request it has received; a stream that stays open is
\* stopped by the platform at maxDuration.
ServerProgress ==
  \/ \E o \in BackendOutcomes : ServerHandle(o)
  \/ MaxDurationExceeded

\* The continuations of the awaits in handleSubmit that end or fail the
\* request.
ConsumerProgress ==
  \/ FetchResolve
  \/ ReadDone
  \/ ReadError
  \/ AbortRejected

\* await reader.read() resolving with bytes: the step of ReadSegment, told by
\* its guard and by the position in the body, which no other step taken
\* while reading moves.
ReadAdvances ==
  /\ pc = "read"
  /\ abortControllerRef = "live"
  /\ recvPos' \in (recvPos + 1)..Len(body)

NextLive ==
  \/ \E m \in InputPool : SetInput(m)
  \/ clock < MaxLiveRequests /\ FormSubmit
  \/ FetchResolve
  \/ FetchFail
  \/ \E e \in ElapsedPool : ReadSegment(Avail, e)
  \/ ReadDone
  \/ ReadError
  \/ Unmount
  \/ AbortRejected
  \/ \E o \in BackendOutcomes : ServerHandle(o)
  \/ \E c \in ConvChunkPool : Len(produced) < MaxLiveChunks /\ RelayChunk(c)
  \/ \E t \in TimestampPool : RelayFinish(t)
  \/ RelayError
  \/ MaxDurationExceeded

SpecLive ==
  /\ Init
  /\ [][NextLive]_vars
  /\ WF_vars(ServerProgress)
  /\ WF_vars(ConsumerProgress)
  /\ WF_recvPos(ReadAdvances)

(***************************************************************************)
(* SpecStream: one request, followed through every way the transport may   *)
(* cut its body into segments.                                             *)
(***************************************************************************)
NextStream ==
  \/ \E m \in InputPool : clock < 1 /\ SetInput(m)
  \/ clock < 1 /\ FormSubmit
  \/ FetchResolve
  \/ \E n \in 1..Avail, e \in ElapsedPool :
       (n = Avail \/ cuts < MaxCuts) /\ ReadSegment(n, e)
  \/ ReadDone
  \/ ReadError
  \/ Unmount
  \/ AbortRejected
  \/ ServerHandle(StreamOpened)
  \/ \E c \in ChunkPool : Len(produced) < MaxChunks /\ RelayChunk(c)
  \/ \E t \in TimestampPool : RelayFinish(t)
  \/ RelayError
  \/ MaxDurationExceeded

SpecStream == Init /\ [][NextStream]_vars

(***************************************************************************)
(* SpecHistory: a conversation long enough for the history window to drop  *)
(* turns.                                                                  *)
(***************************************************************************)
NextHistory ==
  \/ \E m \in HistoryInputPool : clock < MaxHistoryRequests /\ SetInput(m)
  \/ clock < MaxHistoryRequests /\ FormSubmit
  \/ FetchResolve
  \/ ReadSegment(Avail, UPDATE_INTERVAL)
  \/ ReadError
  \/ ServerHandle(StreamOpened)
  \/ \E c \in ConvChunkPool : Len(produced) < MaxConvChunks /\ RelayChunk(c)
  \/ \E t \in TimestampPool : RelayFinish(t)
  \/ RelayError

SpecHistory == Init /\ [][NextHistory]_vars

(***************************************************************************)
(* SpecRelay: the endpoint under the requests of any caller.               *)
(***************************************************************************)
NextRelay ==
  \/ \E r \in RequestPool : Post(r)
  \/ \E o \in BackendOutcomes : ServerHandle(o)
  \/ \E c \in ConvChunkPool : Len(produced) < MaxConvChunks /\ RelayChunk(c)
  \/ \E t \in TimestampPool : RelayFinish(t)
  \/ RelayError

SpecRelay == Init /\ [][NextRelay]_vars

(***************************************************************************)
(* SpecExtract: the relay under responses with Follow-up Questions.        *)
(***************************************************************************)
NextExtract ==
  \/ \E r \in ExtractRequestPool : Post(r)
  \/ ServerHandle(StreamOpened)
  \/ \E c \in ExtractChunkPool :
       Len(produced) < MaxExtractChunks /\ RelayChunk(c)
  \/ \E t \in TimestampPool : RelayFinish(t)
  \/ RelayError

SpecExtract == Init /\ [][NextExtract]_vars

(***************************************************************************)
(* SpecCancel: one request whose consumer may go away at any time.         *)
(***************************************************************************)
NextCancel ==
  \/ \E m \in InputPool : clock < 1 /\ SetInput(m)
  \/ clock < 1 /\ FormSubmit
  \/ FetchResolve
  \/ \E e \in ElapsedPool : ReadSegment(Avail, e)
  \/ ReadDone
  \/ ReadError
  \/ Unmount
  \/ AbortRejected
  \/ ServerHandle(StreamOpened)
  \/ \E c \in ConvChunkPool : Len(produced) < MaxCancelChunks /\ RelayChunk(c)
  \/ \E t \in TimestampPool : RelayFinish(t)
  \/ RelayError
  \/ StreamCancelled
  \/ \E c \in ConvChunkPool :
       Len(produced) < MaxCancelChunks /\ RelayChunkCancelled(c)
  \/ RelayFinishCancelled
  \/ RelayErrorCancelled
  \/ MaxDurationExceeded

SpecCancel == Init /\ [][NextCancel]_vars

(***************************************************************************)
(* SpecStore: the diagnosis store under the calls of its functions and of  *)
(* the two routes.                                                         *)
(***************************************************************************)
NextStore ==
  \/ \E id \in IdPool : storeCalls < MaxStoreCalls /\ getDiagnosis(id)
  \/ \E d \in NewDiagnosisPool :
       storeCalls < MaxStoreCalls /\ addDiagnosis(d)
  \/ \E id \in IdPool, u \in UpdatesPool :
       storeCalls < MaxStoreCalls /\ updateDiagnosis(id, u)
  \/ \E id \in IdPool, e \in BOOLEAN :
       storeCalls < MaxStoreCalls /\ GetDiagnosisById(id, e)
  \/ \E id \in IdPool, b \in ReviewBodyPool :
       storeCalls < MaxStoreCalls /\ ReviewDiagnosis(id, b)

SpecStore == Init /\ [][NextStore]_vars

(***************************************************************************)
(* SpecWidget: ChatWidget with the chat-widget store, its requests served  *)
(* by the relay.                                                           *)
(***************************************************************************)
NextWidget ==
  \/ toggleChat
  \/ closeChat
  \/ openChat
  \/ \E m \in WidgetInputPool : WidgetSetInput(m)
  \/ requestsStarted < MaxWidgetRequests /\ WidgetFormSubmit
  \/ \E t \in SuggestionChips :
       requestsStarted < MaxWidgetRequests /\ handleSuggestionClick(t)
  \/ \E i \in 1..Len(calls), st \in WidgetStatusPool, c \in WidgetChunksPool,
        t \in TimestampPool, e \in WidgetEndingPool :
       WidgetFetchResolve(i, st, c, t, e)
  \/ \E i \in 1..Len(calls) : WidgetFetchFail(i)
  \/ \E i \in 1..Len(calls) :
       \E n \in WidgetReadLengths(calls[i].segments) :
         WidgetRead(i, n, MaxWidgetCuts)
  \/ \E i \in 1..Len(calls) : WidgetReadDone(i)
  \/ \E i \in 1..Len(calls) : WidgetReadError(i)

SpecWidget == Init /\ [][NextWidget]_vars

(***************************************************************************)
(* Properties.                                                             *)
(***************************************************************************)
\* The text the backend has produced so far.
Content == Concat(produced)
\* The concatenations C1..Ck of the chunks produced so far.
ChunkPrefixes == {Concat(SubSeq(produced, 1, k)) : k \in 0..Len(produced)}
\* The relay has forwarded every chunk, unmodified and in production order.
ForwardedInOrder ==
  /\ Len(emitted) >= Len(produced)
  /\ \A i \in 1..Len(produced) : emitted[i] = produced[i]
  /\ body = Encode(Concat(emitted))
\* The placeholder of the current invocation.
AiIndices == {i \in 1..Len(messages) : messages[i].id = aiMessageId}
\* The placeholder of the current invocation is finalized with this text.
FinalizedAs(text) ==
  /\ AiIndices # {}
  /\ \A i \in AiIndices : messages[i].message = text /\ ~messages[i].streaming
\* The current invocation has appended no error message.
NoErrorMessage == \A i \in 1..Len(messages) : messages[i].id # <<"error", clock>>
\* The assistant turn of the current invocation is the last of the history.
AssistantTurnRecorded(text) ==
  /\ Len(conversationHistory) > 0
  /\ conversationHistory[Len(conversationHistory)] = Turn("assistant", text)
\* What the consumer makes of a body that arrives in a single segment.
WholeResult(text) ==
  [text |-> FinalText(text),
   suggestions |->
     IF Includes(text, Marker)
     THEN ParsedSuggestions(SplitOn(text, Marker)[2], JArr(<<>>))
     ELSE JArr(<<>>)]

\* C1 (as stated): the relay forwards the chunks unmodified and in production
\* order, and while the consumer is reading, before it has detected the marker,
\* its accumulated text and the live buffer are C1..Ck for some k.
C1_Original ==
  /\ ForwardedInOrder
  /\ pc = "read" =>
       /\ chunksJoined \in ChunkPrefixes
       /\ streamingMessage \in ChunkPrefixes

\* C1 (amended): the relay forwards the chunks unmodified and in production
\* order; while the consumer is reading, its accumulated text is a prefix of
\* the text the relay has emitted, in emission order, that does not hold the
\* marker, and the live buffer is a prefix of the accumulated text; as long as
\* the transport has split no segment, both are C1..Ck for some k.
C1_Ordering ==
  /\ ForwardedInOrder
  /\ pc = "read" =>
       /\ IsPrefix(chunksJoined, Concat(emitted))
       /\ ~Includes(chunksJoined, Marker)
       /\ IsPrefix(streamingMessage, chunksJoined)
       /\ cuts = 0 =>
            /\ chunksJoined \in ChunkPrefixes
            /\ streamingMessage \in ChunkPrefixes

\* Two chunks were read whole, the live buffer shows the first.
C1_Witness ==
  /\ pc = "read"
  /\ cuts = 0
  /\ Len(produced) = 2
  /\ chunksJoined = Content
  /\ streamingMessage = produced[1]
  /\ streamingMessage # chunksJoined

\* C2: when the relay has streamed a content without the marker followed by
\* its metadata segment, the finalized message is exactly the content and the
\* suggestions are those of the metadata object.
C2_SentinelDeterminism ==
  (turnOutcome = "marker" /\ relayPc = "closed" /\ ~Includes(Content, Marker))
    => /\ FinalizedAs(Content)
       /\ suggestions = JStrings(ExtractSuggestions(Content))

\* C3: however the body was cut into segments, the finalized text and the
\* suggestions are those of the body read in a single segment.
C3_SegmentationIndependence ==
  (turnOutcome \in {"marker", "done"} /\ relayPc \in {"closed", "killed"})
    => /\ FinalizedAs(WholeResult(Concat(emitted)).text)
       /\ suggestions = WholeResult(Concat(emitted)).suggestions

\* The last segment the relay emitted is the sentinel followed by the JSON of
\* an object with the suggestions of the full text, done = true, a timestamp
\* and the category.
LastIsMetadata ==
  /\ Len(emitted) = Len(produced) + 1
  /\ LET last == emitted[Len(emitted)]
         parsed == JSONparse(Slice(last, Len(Sentinel) + 1, Len(last)))
     IN
     /\ IsPrefix(Sentinel, last)
     /\ parsed.ok
     /\ parsed.val.t = "obj"
     /\ Len(parsed.val.v) = 4
     /\ GetProp(parsed.val, KeySuggestions) =
          JStrings(ExtractSuggestions(Content))
     /\ GetProp(parsed.val, KeyDone) = JTrue
     /\ GetProp(parsed.val, KeyTimestamp).t = "str"
     /\ GetProp(parsed.val, KeyTimestamp).v \in TimestampPool
     /\ GetProp(parsed.val, KeyCategory) = GetProp(request, KeyCategory)

\* C4: once the backend's sequence has completed, the relay has emitted every
\* chunk, then exactly one metadata segment, and has closed the channel; it
\* emits no metadata segment otherwise, and nothing after the close.
C4_MetadataOnce ==
  /\ [](upstream = "done" =>
          relayPc = "closed" /\ ForwardedInOrder /\ LastIsMetadata)
  /\ [](upstream # "done" => emitted = produced)
  /\ [][(relayPc = "closed" /\ clock' = clock)
          => UNCHANGED <<relayPc, emitted, body>>]_vars

\* The relay has closed after two chunks with a follow-up section.
C4_Witness ==
  /\ upstream = "done"
  /\ relayPc = "closed"
  /\ Len(produced) = 2
  /\ ExtractSuggestions(fullText) # <<>>

\* C5: once the backend's sequence has raised an error, the channel is errored
\* and never ends normally for the consumer, the chunks forwarded before are
\* all that was emitted (no metadata segment), and nothing changes afterwards.
C5_UpstreamError ==
  /\ [](upstream = "failed" =>
          /\ relayPc = "errored"
          /\ emitted = produced
          /\ body = Encode(Content)
          /\ turnOutcome # "done")
  /\ [][(upstream = "failed" /\ clock' = clock)
          => UNCHANGED <<relayPc, upstream, produced, emitted, body>>]_vars

\* The backend failed after one chunk, which the consumer had read; the
\* consumer's turn failed.
C5_Witness ==
  /\ upstream = "failed"
  /\ Len(produced) = 1
  /\ chunksJoined = produced[1]
  /\ turnOutcome = "failed"

\* C6: when the text after the marker does not parse as JSON, the message is
\* finalized with the text before the marker, the suggestions are empty, no
\* error message is appended and the turn is recorded as an assistant turn.
C6_GracefulMetadataFailure ==
  (turnOutcome = "marker" /\ ~JSONparse(SplitOn(chunksJoined, Marker)[2]).ok)
    => /\ FinalizedAs(SplitOn(chunksJoined, Marker)[1])
       /\ suggestions = JArr(<<>>)
       /\ NoErrorMessage
       /\ AssistantTurnRecorded(SplitOn(chunksJoined, Marker)[1])
       /\ ~isLoading

\* A turn was finalized at the marker with a metadata part that does not parse.
C6_Witness ==
  /\ turnOutcome = "marker"
  /\ ~JSONparse(SplitOn(chunksJoined, Marker)[2]).ok
  /\ Len(SplitOn(chunksJoined, Marker)[1]) > 1
  /\ FinalizedAs(SplitOn(chunksJoined, Marker)[1])

\* C7: when the body ends without the marker, the message is finalized with
\* all the accumulated text, the suggestions are empty, the assistant turn is
\* appended to the history and no error message is appended.
C7_DegradedSuccess ==
  turnOutcome = "done"
    => /\ ~Includes(chunksJoined, Marker)
       /\ FinalizedAs(chunksJoined)
       /\ suggestions = JArr(<<>>)
       /\ AssistantTurnRecorded(chunksJoined)
       /\ NoErrorMessage
       /\ ~isLoading

\* A body ended without the marker after some text.
C7_Witness ==
  /\ turnOutcome = "done"
  /\ Len(chunksJoined) > 0
  /\ FinalizedAs(chunksJoined)

\* C8: at most one message of the list has streaming = true.
C8_OneStreaming ==
  Cardinality({i \in 1..Len(messages) : messages[i].streaming}) <= 1

\* C9: once its request is over, no message of the mounted component is left
\* with streaming = true.
C9_NoneLeftStreaming ==
  (pc = "idle" /\ mounted) => \A i \in 1..Len(messages) : ~messages[i].streaming

\* C10: an invocation of handleSubmit is running only while isLoading is set,
\* and an invocation made while isLoading is set changes neither the messages
\* nor the history and starts no request.
C10_SingleFlight ==
  /\ [](pc # "idle" => isLoading)
  /\ [][(submitCalls' # submitCalls /\ isLoading)
          => UNCHANGED <<messages, conversationHistory, isLoading, pc,
                         turnOutcome, clock, request, httpStatus, relayPc,
                         upstream, produced, emitted, body>>]_vars

\* The submit event of a sendMessage made during a request has been handled
\* and the request is still the only one.
C10_Witness ==
  /\ isLoading
  /\ pc # "idle"
  /\ submitTimers = 0
  /\ Len(Trim(inputMessage)) > 0
  /\ submitCalls > clock

\* The last n elements of a sequence, n at most its length.
LastOf(seq, n) == SubSeq(seq, Len(seq) - n + 1, Len(seq))
\* The lesser of two numbers.
Min(a, b) == IF a <= b THEN a ELSE b

\* C11: the retained history has at most 10 turns and is the most recent
\* min(10, number of appended turns) of the turns appended so far, in their
\* order.
C11_HistoryWindow ==
  /\ Len(conversationHistory) <= 10
  /\ conversationHistory = LastOf(turnLog, Min(10, Len(turnLog)))

\* Eleven turns were appended, of which the oldest was dropped; the oldest
\* turn kept differs from it.
C11_Witness ==
  /\ Len(turnLog) = 11
  /\ Len(conversationHistory) = 10
  /\ conversationHistory[1] = turnLog[2]
  /\ turnLog[2] # turnLog[1]

\* The messages of the list that belong to the current request as
\* placeholder or as error message.
TurnAiIndices ==
  {i \in 1..Len(messages) : messages[i].id = <<"ai", clock>>}
ErrorIndices == {i \in 1..Len(messages) : messages[i].status = "error"}

\* C12: after an AbortError ended a request, the placeholder of the request,
\* if there is one, is not finalized, no error message was appended, and the
\* history is the history sent with the request: the history before the
\* submission and the user's turn, without an assistant turn.
C12_Cancellation ==
  turnOutcome = "aborted" =>
    /\ \A i \in TurnAiIndices :
         messages[i].streaming /\ messages[i].message = <<>>
    /\ NoErrorMessage
    /\ HistoryValue(conversationHistory) =
         GetProp(request, KeyConversationHistory)
    /\ turnLog[Len(turnLog)] = Turn("user", GetProp(request, KeyMessage).v)
    /\ ~isLoading

\* The second request of a conversation was cancelled after a chunk was read.
C12_Witness ==
  /\ turnOutcome = "aborted"
  /\ clock = 2
  /\ TurnAiIndices # {}
  /\ Len(chunksJoined) > 0
  /\ Len(conversationHistory) = 3

\* C13: a request that failed otherwise than by an AbortError has appended
\* the fixed error message as the last message, once, marked as an error and
\* holding neither the error text of the reply nor a backend error text; and
\* an error message is appended by such a failure only.
C13_FixedErrorMessage ==
  /\ [](turnOutcome = "failed" =>
          /\ Len(messages) > 0
          /\ messages[Len(messages)].id = <<"error", clock>>
          /\ messages[Len(messages)].message = ErrorText
          /\ messages[Len(messages)].sender = "ai"
          /\ messages[Len(messages)].status = "error"
          /\ Cardinality({i \in 1..Len(messages) :
                            messages[i].id = <<"error", clock>>}) = 1
          /\ Len(replyError) > 0 => ~Includes(ErrorText, replyError)
          /\ Len(caughtError) > 0 => ~Includes(ErrorText, caughtError))
  /\ [][ErrorIndices' # ErrorIndices =>
          /\ turnOutcome = "running"
          /\ turnOutcome' = "failed"
          /\ Len(messages') = Len(messages) + 1]_vars

\* The read failed after a chunk was read.
C13_Witness ==
  /\ turnOutcome = "failed"
  /\ httpStatus = 200
  /\ Len(chunksJoined) > 0
  /\ messages[Len(messages)].status = "error"

\* The user turns of the log.
UserTurns == {i \in 1..Len(turnLog) : turnLog[i].role = "user"}

\* C14: an accepted submission appends its user turn to the history at once;
\* every submission has exactly one user turn and at most one assistant turn,
\* which follows it; the assistant turn is there only once the response is
\* finalized, at the marker or at the end of the body, and holds the
\* finalized text; a request that is running, failed or cancelled has none.
C14_HistoryTurns ==
  /\ [](Cardinality(UserTurns) = clock)
  /\ [](Len(turnLog) > 0 => turnLog[1].role = "user")
  /\ [](\A i \in 1..(Len(turnLog) - 1) :
          turnLog[i].role = "assistant" => turnLog[i + 1].role = "user")
  /\ [](Len(turnLog) <= 10 => conversationHistory = turnLog)
  /\ [](turnOutcome \in {"running", "failed", "aborted"} =>
          turnLog[Len(turnLog)].role = "user")
  /\ [](turnOutcome \in {"marker", "done"} =>
          /\ turnLog[Len(turnLog)].role = "assistant"
          /\ FinalizedAs(turnLog[Len(turnLog)].content))
  /\ [][clock' # clock =>
          turnLog' = Append(turnLog, Turn("user", Trim(inputMessage)))]_vars

\* A conversation of a finalized request followed by a failed one.
C14_Witness ==
  /\ clock = 2
  /\ turnOutcome = "failed"
  /\ Len(turnLog) = 3
  /\ turnLog[2].role = "assistant"
  /\ Len(turnLog[2].content) > 0

\* C15: a request whose message is missing, empty, not a string or longer
\* than 5000 characters is answered 400 without a call of the backend and
\* without a stream; a string message of 1 to 5000 characters passes the
\* validation.
C15_Validation ==
  (request # Malformed /\ relayPc \notin {"none", "received"}) =>
    LET message == GetProp(request, KeyMessage)
        valid == /\ message.t = "str"
                 /\ Len(message.v) >= 1
                 /\ Len(message.v) <= 5000
    IN
    /\ ~valid => /\ httpStatus = 400
                 /\ prompt = NoPrompt
                 /\ upstream = "none"
                 /\ emitted = <<>>
    /\ valid => httpStatus # 400

\* C16: a request is answered by exactly one of 400, 500, 503 and a stream;
\* when the call of the backend fails, the answer is 500 with the
\* configuration text for an error that names the API key, 503 with the
\* unavailability text for an error that names a quota, 500 with the general
\* text otherwise, and the text of the answer does not hold the backend's.
C16_ErrorMapping ==
  /\ relayPc \in {"none", "received"} => httpStatus = 0
  /\ relayPc = "replied" =>
       /\ httpStatus \in {400, 500, 503}
       /\ Len(replyError) > 0
       /\ upstream = "none"
       /\ emitted = <<>>
  /\ relayPc \in {"streaming", "closed", "errored"} =>
       /\ httpStatus = 200
       /\ replyError = <<>>
  /\ (relayPc = "replied" /\ prompt # NoPrompt) =>
       /\ Len(caughtError) > 0
       /\ ~Includes(replyError, caughtError)
       /\ Includes(caughtError, ApiKeyText) =>
            httpStatus = 500 /\ replyError = ConfigurationError
       /\ (Includes(caughtError, QuotaText)
             /\ ~Includes(caughtError, ApiKeyText)) =>
            httpStatus = 503 /\ replyError = ServiceUnavailable
       /\ (~Includes(caughtError, QuotaText)
             /\ ~Includes(caughtError, ApiKeyText)) =>
            httpStatus = 500 /\ replyError = FailedToProcess

\* The backend refused a valid request for its quota.
C16_Witness ==
  /\ relayPc = "replied"
  /\ prompt # NoPrompt
  /\ Includes(caughtError, QuotaText)
  /\ httpStatus = 503

\* The suggestions of the metadata segment the relay has emitted last.
EmittedSuggestions ==
  LET last == emitted[Len(emitted)] IN
  GetProp(JSONparse(Slice(last, Len(Sentinel) + 1, Len(last))).val,
          KeySuggestions)
\* The lines of the Follow-up Questions section of the response, each
\* trimmed and without its bullet.
SectionLines ==
  LET lines == SplitOn(SuggestionSection(Content), <<"\n">>) IN
  [i \in 1..Len(lines) |-> CleanLine(lines[i])]

\* C17: the suggestions of the metadata segment are the lines of the
\* Follow-up Questions section, trimmed and without their bullet, that have
\* 11 to 149 characters, in their order in the text.
C17_SuggestionFilter ==
  relayPc = "closed" =>
    EmittedSuggestions =
      JStrings(SelectSeq(SectionLines,
                         LAMBDA l : Len(l) >= 11 /\ Len(l) <= 149))

\* A section with a line of 149 and a line of 11 characters: both are kept,
\* in this order.
C17_Witness ==
  /\ relayPc = "closed"
  /\ produced = <<TextHeading, SectionLine(149, "c"), SectionLine(11, "b")>>
  /\ EmittedSuggestions = JStrings(<<Filled(149, "c"), Filled(11, "b")>>)

\* C18: the suggestions of the metadata segment are 0 to 4, and none when
\* the response has no Follow-up Questions heading.
C18_SuggestionCount ==
  relayPc = "closed" =>
    /\ EmittedSuggestions.t = "arr"
    /\ Len(EmittedSuggestions.v) <= 4
    /\ ~Includes(LowerText(Content), HeadingStem) =>
         EmittedSuggestions = JArr(<<>>)

\* C19: the transcript of the prompt is the header followed by the last
\* min(6, |H|) turns of the history H of the request, in order, each as
\* "Patient: <content>" for the role user and "MedAssist: <content>"
\* otherwise, joined by line feeds; there is no transcript when H is absent,
\* empty or not an array; the category label is "General Health" when the
\* category is absent or empty.
C19_PromptTranscript ==
  prompt # NoPrompt =>
    LET H == GetProp(request, KeyConversationHistory)
        category == GetProp(request, KeyCategory)
    IN
    /\ IF H.t = "arr" /\ Len(H.v) > 0
       THEN LET n == Min(6, Len(H.v))
                turns == LastOf(H.v, n)
            IN prompt.context =
                 ContextHeader
                   \o Join([i \in 1..n |->
                              (IF GetProp(turns[i], KeyRole) = JStr(RoleUser)
                               THEN Patient ELSE MedAssist)
                                \o <<":", " ">>
                                \o GetProp(turns[i], KeyContent).v],
                           <<"\n">>)
       ELSE prompt.context = <<>>
    /\ (category = JUndef \/ category = JStr(<<>>)) =>
         prompt.category = GeneralHealth
    /\ prompt.message = GetProp(request, KeyMessage).v

\* The backend was called for a request with a history of seven turns.
C19_Witness ==
  /\ prompt # NoPrompt
  /\ GetProp(request, KeyConversationHistory) = HistoryOfSeven
  /\ GetProp(request, KeyCategory) = JUndef
  /\ relayPc = "streaming"

\* C20: once the consumer has cancelled the request, the relay reads no
\* further chunk of the backend and emits no metadata segment.
C20_RelayCancellation ==
  [][(abortControllerRef = "aborted" /\ clock' = clock) =>
       /\ produced' = produced
       /\ emitted' = emitted]_vars

(***************************************************************************)
(* Claims about the diagnosis store and its routes.                        *)
(***************************************************************************)
\* The step is a call of the store function or route named op.
CallOf(op) == storeResult'.op = op /\ storeCalls' # storeCalls

\* C21: updateDiagnosis(id, fields) for an id the store does not have
\* returns not-found, leaves every record as it is and creates none; for an
\* id it has, it returns the record with exactly the given fields
\* overwritten and the others kept, and no other record changes.
C21_UpdateFrame ==
  [][LET id == storeResult'.id
         fields == storeResult'.arg
     IN
     CallOf("updateDiagnosis") =>
       IF id \notin DOMAIN diagnoses
       THEN /\ ~storeResult'.defined
            /\ diagnoses' = diagnoses
       ELSE /\ storeResult'.defined
            /\ storeResult'.value = diagnoses'[id]
            /\ DOMAIN diagnoses' = DOMAIN diagnoses
            /\ \A other \in DOMAIN diagnoses \ {id} :
                 diagnoses'[other] = diagnoses[other]
            /\ DOMAIN diagnoses'[id] = DOMAIN diagnoses[id] \cup DOMAIN fields
            /\ \A f \in DOMAIN fields : diagnoses'[id][f] = fields[f]
            /\ \A f \in DOMAIN diagnoses[id] \ DOMAIN fields :
                 diagnoses'[id][f] = diagnoses[id][f]]_vars

\* The properties a review writes.
ReviewFields == {"status", "doctorName", "doctorFeedback", "reviewDate"}
\* The review properties of a record, absent ones left out.
ReviewOf(rec) == [f \in ReviewFields \cap DOMAIN rec |-> rec[f]]

\* C22: a record is changed by a doctor's review at most once: once its
\* status is approved or rejected, a later review of the same id leaves its
\* status, doctorName, doctorFeedback and reviewDate as they are.
C22_ReviewedOnce ==
  [][\A id \in DOMAIN diagnoses :
       (CallOf("review") /\ diagnoses[id].status \in {"approved", "rejected"})
         => /\ id \in DOMAIN diagnoses'
            /\ ReviewOf(diagnoses'[id]) = ReviewOf(diagnoses[id])]_vars

\* action is approve or reject, feedback and doctorName are not blank.
ValidReview(json) == Destructures(json) /\ ReviewRejection(json) = 0

\* C30: a valid review request for an id the store does not have leaves the
\* store as it is, creates no record and is answered with a success
\* response; a fetch of an id the store does not have is answered
\* not-found.
C30_UnknownIdReview ==
  [][/\ (/\ CallOf("review")
         /\ ValidReview(storeResult'.arg)
         /\ storeResult'.id \notin DOMAIN diagnoses)
          => /\ diagnoses' = diagnoses
             /\ storeResult'.status = 200
             /\ storeResult'.value.success
     /\ (/\ CallOf("GET")
         /\ storeResult'.id \notin DOMAIN diagnoses)
          => storeResult'.status = 404]_vars

(***************************************************************************)
(* Claims about ChatWidget and the chat-widget store.                      *)
(***************************************************************************)
\* The texts the widget shows as the assistant's: the streaming message and
\* the contents of the assistant messages.
WidgetShown ==
  {currentStreamingMessage}
    \cup {widgetMessages[i].content :
            i \in {k \in 1..Len(widgetMessages) :
                     widgetMessages[k].role = "assistant"}}

\* The last invocation of getAIResponse read its body up to the close of a
\* stream the relay completed.
CompletedNormally ==
  lastCall.how \in {"done", "metadata"} /\ lastCall.ending = "closed"

\* C24: in ChatWidget, when the relay's stream has completed normally an
\* assistant message whose content is the text before the sentinel has been
\* added, and no text the widget shows ever contains the sentinel's marker
\* or the metadata JSON after it.
C24_WidgetCleanText ==
  /\ \A text \in WidgetShown : ~Includes(text, Marker)
  /\ CompletedNormally =>
       \E i \in 1..Len(widgetMessages) :
         /\ widgetMessages[i].role = "assistant"
         /\ widgetMessages[i].content = lastCall.fullText

\* The number of user messages of the widget.
WidgetUserCount(msgs) ==
  Cardinality({i \in 1..Len(msgs) : msgs[i].role = "user"})

\* C25: ChatWidget has at most one request outstanding: a step taken while
\* loading is true, form submission and suggestion click included, starts
\* no request and adds no user message.
C25_WidgetSingleFlight ==
  [][loading =>
       /\ requestsStarted' = requestsStarted
       /\ WidgetUserCount(widgetMessages') = WidgetUserCount(widgetMessages)
    ]_vars

\* C29: in every state of the chat-widget store reached from isOpen = false,
\* isMinimized = true by toggleChat, openChat and closeChat, isMinimized =
\* false implies isOpen = true; and toggleChat and openChat never set isOpen
\* to false, so only closeChat does.
C29_WidgetStore ==
  /\ [](~isMinimized => isOpen)
  /\ [][(toggleChat \/ openChat) => (isOpen => isOpen')]_vars

\* The widget was opened and then minimized by toggleChat: it stays open.
C29_Witness == isOpen /\ isMinimized

(***************************************************************************)
(* Claims about the split at the marker and the live buffer of             *)
(* ChatInterface.                                                          *)
(***************************************************************************)
\* The text before the first occurrence of the marker.
BeforeFirst(text) == Slice(text, 1, IndexOf(text, Marker) - 1)
\* The text after the first occurrence of the marker, up to the end.
AfterFirst(text) ==
  Slice(text, IndexOf(text, Marker) + Len(Marker), Len(text))

\* C23: when ChatInterface finalizes at the marker, the accumulated text is
\* split at the first occurrence only, also when the marker occurs more than
\* once: the message is everything before the first occurrence and the text
\* parsed as metadata is everything after it, up to the end of the
\* accumulated text.
C23_FirstOccurrenceSplit ==
  turnOutcome = "marker" =>
    /\ FinalizedAs(BeforeFirst(chunksJoined))
    /\ MetadataPart(chunksJoined) = AfterFirst(chunksJoined)

\* C27: however the transport cuts the body into segments, the text
\* ChatInterface shows for the message in flight holds no part of the
\* sentinel or of the metadata JSON: at every moment the live buffer is a
\* prefix of the content the backend has produced.
C27_LiveTextIsContentPrefix ==
  IsPrefix(streamingMessage, Concat(produced))

\* C28: whenever isLoading is false the live buffer of the mounted component
\* is empty, whether the last request ended by success or by an error after
\* some chunks (a cancelled request leaves an unmounted component).
C28_IdleBufferEmpty ==
  (mounted /\ ~isLoading) => streamingMessage = <<>>

\* C26: every accepted submission of ChatInterface eventually clears the
\* processing flag, whether its request completes, fails or is cancelled;
\* and a submission made once isLoading is false, with an input that is not
\* blank, is accepted.
C26_LoadingCleared ==
  /\ isLoading ~> ~isLoading
  /\ [][(/\ submitCalls' # submitCalls
         /\ ~isLoading
         /\ Len(Trim(inputMessage)) > 0)
          => (isLoading' /\ pc' = "fetch" /\ clock' = clock + 1)]_vars

\* A second submission was accepted after the first request had ended.
C26_Witness ==
  /\ clock = 2
  /\ isLoading
  /\ pc = "fetch"

====
